---------------------------- MODULE Spec2Model ----------------------------
(***************************************************************************)
(* A model of the NAVTEX / SITOR-B receive core (navtex_rx.cpp):           *)
(* the CCIR 476 codec, the FEC combiner, the frame synchroniser, the       *)
(* message assembler and the sample-clock timeout.                         *)
(*                                                                         *)
(* Characters are ASCII code points, strings are sequences of them.        *)
(* A soft bit is an integer: > 0 reads as a one, anything else as a zero.  *)
(***************************************************************************)
EXTENDS Integers, Sequences, FiniteSets, TLC

(***************************************************************************)
(* Program constants                                                       *)
(***************************************************************************)
code_ltrs   == 90     \* 0x5a
code_figs   == 54     \* 0x36
code_alpha  == 15     \* 0x0f
code_beta   == 51     \* 0x33
code_char32 == 106    \* 0x6a
code_rep    == 102    \* 0x66
char_bell   == 7      \* 0x07

m_baud_rate        == 100   \* also the length of m_bit_values
header_len         == 10
slen               == 4
min_siz_logged_msg == 0
BUFSIZE            == 8192  \* samples per process_data call of the driver
TimeoutSec         == 600
MaxErrorCount      == 5
FecDistance        == 35
UnderscoreChar     == 95    \* '_' : no glyph in the table

str_timeout      == << 58, 60, 84, 73, 77, 69, 79, 85, 84, 62 >>  \* ":<TIMEOUT>"
str_lost_header  == << 91, 76, 111, 115, 116, 32, 104, 101, 97, 100, 101, 114, 93, 58 >>  \* "[Lost header]:"
str_lost_trailer == << 58, 91, 76, 111, 115, 116, 32, 116, 114, 97, 105, 108, 101, 114, 93 >>  \* ":[Lost trailer]"
stop_valid       == << 78, 78, 78, 78 >>  \* "NNNN"

code_to_ltrs ==
  << 95,  95,  95,  95,  95,  95,  95,  95,  95,  95,  95,  95,  95,  95,  95,  95,
     95,  95,  95,  95,  95,  95,  95,  74,  95,  95,  95,  70,  95,  67,  75,  95,
     95,  95,  95,  95,  95,  95,  95,  87,  95,  95,  95,  89,  95,  80,  81,  95,
     95,  95,  95,  95,  95,  71,  95,  95,  95,  77,  88,  95,  86,  95,  95,  95,
     95,  95,  95,  95,  95,  95,  95,  65,  95,  95,  95,  83,  95,  73,  85,  95,
     95,  95,  95,  68,  95,  82,  69,  95,  95,  78,  95,  95,  32,  95,  95,  95,
     95,  95,  95,  90,  95,  76,  95,  95,  95,  72,  95,  95,  10,  95,  95,  95,
     95,  79,  66,  95,  84,  95,  95,  95,  13,  95,  95,  95,  95,  95,  95,  95 >>

code_to_figs ==
  << 95,  95,  95,  95,  95,  95,  95,  95,  95,  95,  95,  95,  95,  95,  95,  95,
     95,  95,  95,  95,  95,  95,  95,  39,  95,  95,  95,  33,  95,  58,  40,  95,
     95,  95,  95,  95,  95,  95,  95,  50,  95,  95,  95,  54,  95,  48,  49,  95,
     95,  95,  95,  95,  95,  38,  95,  95,  95,  46,  47,  95,  59,  95,  95,  95,
     95,  95,  95,  95,  95,  95,  95,  45,  95,  95,  95,   7,  95,  56,  55,  95,
     95,  95,  95,  36,  95,  52,  51,  95,  95,  44,  95,  95,  32,  95,  95,  95,
     95,  95,  95,  34,  95,  41,  95,  95,  95,  35,  95,  95,  10,  95,  95,  95,
     95,  57,  63,  95,  53,  95,  95,  95,  13,  95,  95,  95,  95,  95,  95,  95 >>

(***************************************************************************)
(* Integer helpers: C's bit operations and truncating division             *)
(***************************************************************************)
Pow2(i) == 2 ^ i

BitOf(v, i) == (v \div Pow2(i)) % 2

\* v & w on non-negative integers below 2^8
BitAnd(v, w) ==
  LET bit[i \in 0..7] == IF BitOf(v, i) = 1 /\ BitOf(w, i) = 1 THEN Pow2(i) ELSE 0
      sum[i \in 0..8] == IF i = 0 THEN 0 ELSE sum[i-1] + bit[i-1]
  IN  sum[8]

\* C's int / int truncates toward zero
CDiv(a, b) ==
  LET abs(x) == IF x < 0 THEN -x ELSE x
      q == abs(a) \div abs(b)
  IN  IF (a < 0) = (b < 0) THEN q ELSE -q

Min(a, b) == IF a < b THEN a ELSE b

\* the element of a set of one element: the value an earlier statement left,
\* in { e(x) : x \in {v} }, is complete when the later statement e reads it
The(S) == CHOOSE v \in S : TRUE

(***************************************************************************)
(* CCIR476                                                                 *)
(***************************************************************************)
RECURSIVE check_bits_loop(_, _)
check_bits_loop(v, bc) ==
  IF v /= 0 THEN check_bits_loop(BitAnd(v, v - 1), bc + 1) ELSE bc

check_bits_bc3(v) == check_bits_loop(v, 0) = 3

\* CCIR476::check_bits: Kernighan's bit count, true when the count is 4
check_bits(v) == check_bits_loop(v, 0) = 4

\* CCIR476::CCIR476: the table m_valid_codes
m_valid_codes == [code \in 0..127 |-> check_bits(code)]

\* CCIR476::bytes_to_code on the 7 soft bits bits[pos+1 .. pos+7] (pos is the
\* C index, 0-based): bit i of the code is set when pos[i] > 0
bytes_to_code(bits, pos) ==
  LET bit[i \in 0..6] == IF bits[pos + 1 + i] > 0 THEN Pow2(i) ELSE 0
      sum[i \in 0..7] == IF i = 0 THEN 0 ELSE sum[i-1] + bit[i-1]
  IN  sum[7]

valid_char_at_ge4(bits, pos) ==
  Cardinality({i \in 0..6 : bits[pos + 1 + i] > 0}) >= 4

\* CCIR476::valid_char_at: exactly four of the 7 soft bits are > 0
valid_char_at(bits, pos) ==
  Cardinality({i \in 0..6 : bits[pos + 1 + i] > 0}) = 4

code_to_char_no_bell(code, shift) ==
  LET target == IF shift THEN code_to_figs ELSE code_to_ltrs
  IN  IF target[code + 1] \notin {UnderscoreChar, char_bell} THEN target[code + 1] ELSE -code

\* CCIR476::code_to_char: the glyph of the active table, or the negated code
code_to_char(code, shift) ==
  LET target == IF shift THEN code_to_figs ELSE code_to_ltrs
  IN  IF target[code + 1] /= UnderscoreChar THEN target[code + 1] ELSE -code

\* CCIR476::CCIR476: the tables m_figs_to_code and m_ltrs_to_code; the loop
\* runs over the codes in ascending order, so the largest code of a glyph stays
MaxOf(S) == CHOOSE x \in S : \A y \in S : y <= x

m_figs_to_code ==
  [ch \in 0..127 |->
     LET S == {code \in 0..127 : check_bits(code) /\ code_to_figs[code + 1] = ch
                                  /\ ch /= UnderscoreChar}
     IN  IF S = {} THEN 0 ELSE MaxOf(S)]

m_ltrs_to_code ==
  [ch \in 0..127 |->
     LET S == {code \in 0..127 : check_bits(code) /\ code_to_ltrs[code + 1] = ch
                                  /\ ch /= UnderscoreChar}
     IN  IF S = {} THEN 0 ELSE MaxOf(S)]

toupper(ch) == IF ch \in 97..122 THEN ch - 32 ELSE ch

char_to_code_ltrs(str, ch0, ex_shift) ==
  LET ch == toupper(ch0) IN
  IF ex_shift /\ m_figs_to_code[ch] /= 0
  THEN [str |-> Append(str, m_figs_to_code[ch]), ex_shift |-> ex_shift]
  ELSE IF ~ex_shift /\ m_ltrs_to_code[ch] /= 0
  THEN [str |-> Append(str, m_ltrs_to_code[ch]), ex_shift |-> ex_shift]
  ELSE IF m_figs_to_code[ch] /= 0
  THEN [str |-> str \o << code_ltrs, m_figs_to_code[ch] >>, ex_shift |-> TRUE]
  ELSE IF m_ltrs_to_code[ch] /= 0
  THEN [str |-> str \o << code_ltrs, m_ltrs_to_code[ch] >>, ex_shift |-> FALSE]
  ELSE [str |-> str, ex_shift |-> ex_shift]

\* CCIR476::char_to_code: [str, ex_shift] after the call
char_to_code(str, ch0, ex_shift) ==
  LET ch == toupper(ch0) IN
  IF ex_shift /\ m_figs_to_code[ch] /= 0
  THEN [str |-> Append(str, m_figs_to_code[ch]), ex_shift |-> ex_shift]
  ELSE IF ~ex_shift /\ m_ltrs_to_code[ch] /= 0
  THEN [str |-> Append(str, m_ltrs_to_code[ch]), ex_shift |-> ex_shift]
  ELSE IF m_figs_to_code[ch] /= 0
  THEN [str |-> str \o << code_figs, m_figs_to_code[ch] >>, ex_shift |-> TRUE]
  ELSE IF m_ltrs_to_code[ch] /= 0
  THEN [str |-> str \o << code_ltrs, m_ltrs_to_code[ch] >>, ex_shift |-> FALSE]
  ELSE [str |-> str, ex_shift |-> ex_shift]

\* char_to_code on each glyph in turn, from r = [str, ex_shift]: on the
\* glyphs of the first half, then on those of the second
RECURSIVE chars_to_codes_from(_, _)
chars_to_codes_from(r, glyphs) ==
  IF Len(glyphs) = 0 THEN r
  ELSE IF Len(glyphs) = 1 THEN char_to_code(r.str, glyphs[1], r.ex_shift)
  ELSE The({chars_to_codes_from(half, SubSeq(glyphs, Len(glyphs) \div 2 + 1, Len(glyphs))) :
              half \in {chars_to_codes_from(r, SubSeq(glyphs, 1, Len(glyphs) \div 2))}})

\* a text as the codes a transmitter sends for it: char_to_code on each glyph
chars_to_codes(str, glyphs, ex_shift) ==
  chars_to_codes_from([str |-> str, ex_shift |-> ex_shift], glyphs).str

fec_offset_28(offset) == offset - 28

\* fec_offset: the rep copy is 35 bits before the alpha copy
fec_offset(offset) == offset - FecDistance


(***************************************************************************)
(* ccir_message: a string with the header fields m_origin, m_subject,      *)
(* m_number                                                                *)
(***************************************************************************)
QuestionMark == 63   \* '?'

isdigit(c) == c \in 48..57
isalnum(c) == c \in 48..57 \/ c \in 65..90 \/ c \in 97..122

\* ccir_message::init_members on an empty string: the default message
ccir_message_empty ==
  [str |-> << >>, m_origin |-> QuestionMark, m_subject |-> QuestionMark, m_number |-> 0]

\* ccir_message::reset_msg: clear() and init_members()
reset_msg(msg) == ccir_message_empty

\* ccir_message::cleanup: one pass over the string with the flags wasDelim,
\* wasSpace, chrSeen; acc is newStr
RECURSIVE cleanup_loop(_, _, _, _, _, _)
cleanup_loop(str, i, wasDelim, wasSpace, chrSeen, newStr) ==
  IF i > Len(str) THEN newStr
  ELSE LET c == str[i] IN
       IF c = 10 \/ c = 13 THEN cleanup_loop(str, i + 1, TRUE, wasSpace, chrSeen, newStr)
       ELSE IF c = 32 \/ c = 9 THEN cleanup_loop(str, i + 1, wasDelim, TRUE, chrSeen, newStr)
       ELSE LET sep == IF chrSeen /\ wasDelim THEN << 10 >>
                       ELSE IF chrSeen /\ wasSpace THEN << 32 >>
                       ELSE << >>
            IN  cleanup_loop(str, i + 1, FALSE, FALSE, TRUE, newStr \o sep \o << c >>)

cleanup(str) == cleanup_loop(str, 1, FALSE, FALSE, FALSE, << >>)

\* ccir_message::ccir_message(s, origin, subject, number): copies and cleans up
ccir_message_of(str, origin, subject, number) ==
  [str |-> cleanup(str), m_origin |-> origin, m_subject |-> subject, m_number |-> number]

\* ccir_message::display: the string becomes the cleaned-up alt_string
display(msg, alt_string) == [msg EXCEPT !.str = cleanup(alt_string)]

header_matches_cr_only(str) ==
  /\ Len(str) >= header_len
  /\ LET comp(k) == str[Len(str) - header_len + 1 + k] IN
       /\ comp(0) = 90 /\ comp(1) = 67 /\ comp(2) = 90 /\ comp(3) = 67
       /\ comp(4) = 32
       /\ isalnum(comp(5)) /\ isalnum(comp(6))
       /\ isdigit(comp(7)) /\ isdigit(comp(8))
       /\ comp(9) = 13

\* the condition of ccir_message::detect_header on the last header_len characters
header_matches(str) ==
  /\ Len(str) >= header_len
  /\ LET comp(k) == str[Len(str) - header_len + 1 + k] IN
       /\ comp(0) = 90 /\ comp(1) = 67 /\ comp(2) = 90 /\ comp(3) = 67   \* "ZCZC"
       /\ comp(4) = 32
       /\ isalnum(comp(5)) /\ isalnum(comp(6))
       /\ isdigit(comp(7)) /\ isdigit(comp(8))
       /\ comp(9) \in {10, 13, 0}       \* strchr("\n\r", c) also finds the terminator

detect_header_uncleaned(msg) ==
  IF header_matches(msg.str)
  THEN LET n == Len(msg.str)
           comp(k) == msg.str[n - header_len + 1 + k]
       IN  [first  |-> TRUE,
            second |-> [str |-> SubSeq(msg.str, 1, n - header_len), m_origin |-> msg.m_origin,
                        m_subject |-> msg.m_subject, m_number |-> msg.m_number],
            msg    |-> [str |-> << >>,
                        m_origin  |-> comp(5),
                        m_subject |-> comp(6),
                        m_number  |-> (comp(7) - 48) * 10 + (comp(8) - 48)]]
  ELSE [first |-> FALSE, second |-> ccir_message_empty, msg |-> msg]

\* ccir_message::detect_header: [first, second, msg], msg being the message
\* object after the call
detect_header(msg) ==
  IF header_matches(msg.str)
  THEN LET n == Len(msg.str)
           comp(k) == msg.str[n - header_len + 1 + k]
       IN  [first  |-> TRUE,
            second |-> ccir_message_of(SubSeq(msg.str, 1, n - header_len),
                                       msg.m_origin, msg.m_subject, msg.m_number),
            msg    |-> [str |-> << >>,
                        m_origin  |-> comp(5),
                        m_subject |-> comp(6),
                        m_number  |-> (comp(7) - 48) * 10 + (comp(8) - 48)]]
  ELSE [first |-> FALSE, second |-> ccir_message_empty, msg |-> msg]

detect_end_keep(msg) ==
  LET qlen == Len(msg.str) IN
  IF qlen < slen THEN [end_seen |-> FALSE, msg |-> msg]
  ELSE [end_seen |-> SubSeq(msg.str, qlen - slen + 1, qlen) = stop_valid, msg |-> msg]

\* ccir_message::detect_end: [end_seen, msg]; the trailer is erased when seen
detect_end(msg) ==
  LET qlen == Len(msg.str) IN
  IF qlen < slen THEN [end_seen |-> FALSE, msg |-> msg]
  ELSE IF SubSeq(msg.str, qlen - slen + 1, qlen) = stop_valid
       THEN [end_seen |-> TRUE, msg |-> [msg EXCEPT !.str = SubSeq(msg.str, 1, qlen - slen)]]
       ELSE [end_seen |-> FALSE, msg |-> msg]

(***************************************************************************)
(* navtex_rx: the operations on a decoder s, a record of the object's      *)
(* fields, the function-static last_char, the sink m_out (the sequence of  *)
(* writes made to the FILE) and flushed (the message objects shown by      *)
(* display_message, in order).                                             *)
(***************************************************************************)
\* navtex_rx::put_rx_char: putc(c, m_out)
put_rx_char(s, c) ==
  [s EXCEPT !.m_out = Append(@, [fn |-> "putc", bytes |-> << c >>])]

\* navtex_rx::put_received_message: fputs(message, m_out)
put_received_message(s, message) ==
  [s EXCEPT !.m_out = Append(@, [fn |-> "fputs", bytes |-> message])]

display_message_not_empty(s, ccir_msg, alt_string) ==
  IF Len(ccir_msg.str) >= 1
  THEN LET shown == display(ccir_msg, alt_string)
       IN  [put_received_message(s, alt_string) EXCEPT
              !.flushed = Append(@, [msg |-> shown, time |-> s.m_time_sec])]
  ELSE s

\* navtex_rx::display_message on a temporary message (msg_cut of
\* process_messages): ccir_msg.display(alt_string), then the write
display_message(s, ccir_msg, alt_string) ==
  IF Len(ccir_msg.str) >= min_siz_logged_msg
  THEN LET shown == display(ccir_msg, alt_string)
       IN  [put_received_message(s, alt_string) EXCEPT
              !.flushed = Append(@, [msg |-> shown, time |-> s.m_time_sec])]
  ELSE s

flush_message_keep(s, extra_info) ==
  LET alt == IF s.m_header_found
             THEN s.m_curr_msg.str \o extra_info
             ELSE str_lost_header \o s.m_curr_msg.str \o extra_info
      s1  == display_message(s, s.m_curr_msg, alt)
  IN  [s1 EXCEPT !.m_curr_msg = reset_msg(@),
                 !.m_message_time = s.m_time_sec]

\* navtex_rx::flush_message: display m_curr_msg, reset it, restart the timeout
flush_message(s, extra_info) ==
  LET alt == IF s.m_header_found
             THEN s.m_curr_msg.str \o extra_info
             ELSE str_lost_header \o s.m_curr_msg.str \o extra_info
      s1  == display_message(s, s.m_curr_msg, alt)
  IN  [s1 EXCEPT !.m_header_found = FALSE,
                 !.m_curr_msg = reset_msg(@),
                 !.m_message_time = s.m_time_sec]

\* navtex_rx::process_timeout
process_timeout_no_sitor_check(s) ==
  IF ~(s.m_time_sec - s.m_message_time > TimeoutSec) THEN s
  ELSE flush_message(s, str_timeout)

process_timeout_ge(s) ==
  IF s.m_only_sitor_b THEN s
  ELSE IF ~(s.m_time_sec - s.m_message_time >= TimeoutSec) THEN s
  ELSE flush_message(s, str_timeout)

process_timeout(s) ==
  IF s.m_only_sitor_b THEN s
  ELSE IF ~(s.m_time_sec - s.m_message_time > TimeoutSec) THEN s
  ELSE flush_message(s, str_timeout)

filter_print_raw(s, c) ==
  IF c /= -1 /\ c /= code_alpha /\ c /= code_rep THEN put_rx_char(s, c) ELSE s

\* navtex_rx::filter_print
filter_print(s, c) ==
  IF c = char_bell THEN put_rx_char(s, 39)     \* '\''
  ELSE IF c /= -1 /\ c /= 13 /\ c /= code_alpha /\ c /= code_rep THEN put_rx_char(s, c)
  ELSE s

process_messages_glyph_activity(s, c) ==
  LET s1 == [s EXCEPT !.m_curr_msg.str = Append(@, c)] IN
  IF s1.m_only_sitor_b
  THEN [s1 EXCEPT !.m_header_found = TRUE, !.m_message_time = s1.m_time_sec]
  ELSE LET msg_cut == detect_header(s1.m_curr_msg)
           s2 == [s1 EXCEPT !.m_curr_msg = msg_cut.msg]
       IN  IF msg_cut.first
           THEN LET s3 == IF s2.m_header_found
                          THEN display_message(s2, msg_cut.second,
                                               msg_cut.second.str \o str_lost_trailer)
                          ELSE IF msg_cut.second.str /= << >>
                          THEN display_message(s2, msg_cut.second,
                                   str_lost_header \o msg_cut.second.str \o str_lost_trailer)
                          ELSE s2
                IN  [s3 EXCEPT !.m_header_found = TRUE, !.m_message_time = s3.m_time_sec]
           ELSE LET e == detect_end(s2.m_curr_msg)
                    s3 == [s2 EXCEPT !.m_curr_msg = e.msg]
                IN  IF e.end_seen THEN flush_message(s3, << >>)
                    ELSE [s3 EXCEPT !.m_message_time = s3.m_time_sec]

\* navtex_rx::process_messages
process_messages(s, c) ==
  LET s1 == [s EXCEPT !.m_curr_msg.str = Append(@, c)] IN
  IF s1.m_only_sitor_b
  THEN [s1 EXCEPT !.m_header_found = TRUE, !.m_message_time = s1.m_time_sec]
  ELSE LET msg_cut == detect_header(s1.m_curr_msg)
           s2 == [s1 EXCEPT !.m_curr_msg = msg_cut.msg]
       IN  IF msg_cut.first
           THEN LET s3 == IF s2.m_header_found
                          THEN display_message(s2, msg_cut.second,
                                               msg_cut.second.str \o str_lost_trailer)
                          ELSE IF msg_cut.second.str /= << >>
                          THEN display_message(s2, msg_cut.second,
                                   str_lost_header \o msg_cut.second.str \o str_lost_trailer)
                          ELSE s2
                IN  [s3 EXCEPT !.m_header_found = TRUE, !.m_message_time = s3.m_time_sec]
           ELSE LET e == detect_end(s2.m_curr_msg)
                    s3 == [s2 EXCEPT !.m_curr_msg = e.msg]
                IN  IF e.end_seen THEN flush_message(s3, << >>) ELSE s3

process_char_detect_first(s, chr) ==
  IF chr = code_rep
  THEN [s EXCEPT !.m_alpha_phase = IF s.last_char = code_rep THEN FALSE ELSE @,
                 !.last_char = chr]
  ELSE IF chr \in {code_alpha, code_beta, code_char32} THEN [s EXCEPT !.last_char = chr]
  ELSE IF chr = code_ltrs THEN [s EXCEPT !.m_shift = FALSE, !.last_char = chr]
  ELSE IF chr = code_figs THEN [s EXCEPT !.m_shift = TRUE, !.last_char = chr]
  ELSE LET glyph == code_to_char(chr, s.m_shift) IN
       IF glyph < 0 THEN [s EXCEPT !.last_char = glyph]
       ELSE [filter_print(process_messages(s, glyph), glyph) EXCEPT !.last_char = glyph]

process_char_ltrs_ignored(s, chr) ==
  IF chr = code_rep
  THEN [s EXCEPT !.m_alpha_phase = IF s.last_char = code_rep THEN FALSE ELSE @,
                 !.last_char = chr]
  ELSE IF chr \in {code_alpha, code_beta, code_char32, code_ltrs} THEN [s EXCEPT !.last_char = chr]
  ELSE IF chr = code_figs THEN [s EXCEPT !.m_shift = TRUE, !.last_char = chr]
  ELSE LET glyph == code_to_char(chr, s.m_shift) IN
       IF glyph < 0 THEN [s EXCEPT !.last_char = glyph]
       ELSE [process_messages(filter_print(s, glyph), glyph) EXCEPT !.last_char = glyph]

\* navtex_rx::process_char; last_char takes the value chr has at the end,
\* which in the default branch is the glyph (or the negated code)
process_char(s, chr) ==
  IF chr = code_rep
  THEN [s EXCEPT !.m_alpha_phase = IF s.last_char = code_rep THEN FALSE ELSE @,
                 !.last_char = chr]
  ELSE IF chr \in {code_alpha, code_beta, code_char32} THEN [s EXCEPT !.last_char = chr]
  ELSE IF chr = code_ltrs THEN [s EXCEPT !.m_shift = FALSE, !.last_char = chr]
  ELSE IF chr = code_figs THEN [s EXCEPT !.m_shift = TRUE, !.last_char = chr]
  ELSE LET glyph == code_to_char(chr, s.m_shift) IN
       IF glyph < 0 THEN [s EXCEPT !.last_char = glyph]
       ELSE [process_messages(filter_print(s, glyph), glyph) EXCEPT !.last_char = glyph]


(***************************************************************************)
(* FEC combiner                                                            *)
(***************************************************************************)
\* flip_smallest_bit on the 7 soft bits bits[pos+1 .. pos+7].  count_one
\* starts at 1 and counts the values >= 0; the first closest-to-zero value
\* of each sign is remembered (strict comparisons).
flip_smallest_bit(bits, pos) ==
  LET val(i) == bits[pos + 1 + i]
      zeros == {i \in 0..6 : val(i) < 0}
      ones  == {i \in 0..6 : ~(val(i) < 0)}
      count_zero == Cardinality(zeros)
      count_one  == 1 + Cardinality(ones)
      min_zero_pos == CHOOSE i \in zeros :
                        \A j \in zeros : val(j) < val(i) \/ (val(j) = val(i) /\ i <= j)
      min_one_pos  == CHOOSE i \in ones :
                        \A j \in ones : val(j) > val(i) \/ (val(j) = val(i) /\ i <= j)
  IN  IF count_zero = 4
      THEN [bits EXCEPT ![pos + 1 + min_zero_pos] = -@]
      ELSE IF count_one = 5
      THEN [bits EXCEPT ![pos + 1 + min_one_pos] = -@]
      ELSE bits

pb_decode_skip(s, code, success) == [s |-> s, ret |-> success - 2, code |-> -1]

\* the code after "decode:" in process_bytes
pb_decode(s, code, success) == [s |-> process_char(s, code), ret |-> success, code |-> code]

pb_none_minus1(s, ret) == [s |-> s, ret |-> -1, code |-> -1]

pb_none(s, ret) == [s |-> s, ret |-> ret, code |-> -1]

\* navtex_rx::process_bytes: [s, ret, code], s the decoder after the call, ret
\* the value returned and code the code handed to process_char (-1: none)
process_bytes(s, cursor) ==
  LET bits0  == s.m_bit_values
      code   == bytes_to_code(bits0, cursor)
  IN
  IF check_bits(code) THEN pb_decode(s, code, 1)
  ELSE IF fec_offset(cursor) < 0 THEN pb_none(s, -1)
  ELSE
    LET reppos == fec_offset(cursor)
        rep    == bytes_to_code(bits0, reppos)
    IN
    IF check_bits(rep)
    THEN IF rep = code_rep THEN pb_none(s, 0) ELSE pb_decode(s, rep, 0)
    ELSE
      LET avg   == [i \in 1..7 |-> bits0[cursor + i] + bits0[reppos + i]]
          calc1 == bytes_to_code(avg, 0)
          bits1 == flip_smallest_bit(bits0, cursor)
          calc2 == bytes_to_code(bits1, cursor)
          bits2 == flip_smallest_bit(bits1, reppos)
          calc3 == bytes_to_code(bits2, reppos)
          avg2  == flip_smallest_bit(avg, 0)
          calc4 == bytes_to_code(avg2, 0)
      IN
      IF check_bits(calc1) THEN pb_decode(s, calc1, -1)
      ELSE IF check_bits(calc2)
           THEN pb_decode([s EXCEPT !.m_bit_values = bits1], calc2, -1)
      ELSE IF check_bits(calc3)
           THEN pb_decode([s EXCEPT !.m_bit_values = bits2], calc3, -1)
      ELSE IF check_bits(calc4)
           THEN pb_decode([s EXCEPT !.m_bit_values = bits2], calc4, -1)
      ELSE pb_none([s EXCEPT !.m_bit_values = bits2], -2)

(***************************************************************************)
(* Frame synchronisation                                                   *)
(***************************************************************************)
\* the inner loop of find_alpha_characters for one offset, from slot i on:
\* [score, reps]
RECURSIVE fac_slots(_, _, _, _, _)
fac_slots(bits, i, limit, score, reps) ==
  IF ~(i < limit) THEN [score |-> score, reps |-> reps]
  ELSE IF ~valid_char_at(bits, i) THEN fac_slots(bits, i + 7, limit, score, reps)
  ELSE LET ri   == fec_offset(i)
           code == bytes_to_code(bits, i)
           rep  == bytes_to_code(bits, ri)
       IN  IF code = rep
           THEN IF code = code_alpha \/ code = code_rep
                THEN fac_slots(bits, i + 7, limit, 0, reps)
                ELSE fac_slots(bits, i + 7, limit, score + 1, reps + 1)
           ELSE IF code = code_alpha /\ bytes_to_code(bits, i - 7) = code_rep
                THEN fac_slots(bits, i + 7, limit, score + 1, reps + 1)
                ELSE fac_slots(bits, i + 7, limit, score + 1, reps)

\* the outer loop of find_alpha_characters over the 14 offsets: [best_score, best_offset]
RECURSIVE fac_offsets(_, _, _, _)
fac_offsets(bits, offset, best_score, best_offset) ==
  IF ~(offset < FecDistance + 14) THEN [best_score |-> best_score, best_offset |-> best_offset]
  ELSE LET r == fac_slots(bits, offset, Len(bits) - 7, 0, 0) IN
       IF r.reps >= 3 /\ r.score + r.reps > best_score
       THEN fac_offsets(bits, offset + 1, r.score + r.reps, offset)
       ELSE fac_offsets(bits, offset + 1, best_score, best_offset)

find_alpha_characters_ge8(bits) ==
  LET b == fac_offsets(bits, FecDistance, 0, 0) IN
  IF b.best_score >= 8 THEN b.best_offset ELSE -1

\* navtex_rx::find_alpha_characters
find_alpha_characters(bits) ==
  LET b == fac_offsets(bits, FecDistance, 0, 0) IN
  IF b.best_score > 8 THEN b.best_offset ELSE -1

hbv_sync_retry(s) ==
  IF s.m_state = "SYNC"
  THEN LET offset == find_alpha_characters(s.m_bit_values) IN
       IF offset >= 0
       THEN [s EXCEPT !.m_state = "READ_DATA", !.m_bit_cursor = offset,
                      !.m_alpha_phase = TRUE]
       ELSE s
  ELSE s

hbv_sync_keep_cursor(s) ==
  IF s.m_state = "SYNC"
  THEN LET offset == find_alpha_characters(s.m_bit_values) IN
       IF offset >= 0
       THEN [s EXCEPT !.m_state = "READ_DATA", !.m_alpha_phase = TRUE]
       ELSE [s EXCEPT !.m_state = "SYNC_SETUP"]
  ELSE s

\* navtex_rx::handle_bit_value
\* handle_bit_value in SYNC: find the most likely location where the message
\* starts
hbv_sync(s) ==
  IF s.m_state = "SYNC"
  THEN LET offset == find_alpha_characters(s.m_bit_values) IN
       IF offset >= 0
       THEN [s EXCEPT !.m_state = "READ_DATA", !.m_bit_cursor = offset,
                      !.m_alpha_phase = TRUE]
       ELSE [s EXCEPT !.m_state = "SYNC_SETUP"]
  ELSE s

hbv_errors_ge(r) ==
  LET ec == r.s.m_error_count - r.ret
  IN  [r.s EXCEPT !.m_error_count = IF ec < 0 THEN 0 ELSE ec,
                  !.m_state = IF ec >= MaxErrorCount THEN "SYNC_SETUP" ELSE @]

\* handle_bit_value after process_bytes has returned r: the error count
hbv_errors(r) ==
  LET ec == r.s.m_error_count - r.ret
  IN  [r.s EXCEPT !.m_error_count = IF ec < 0 THEN 0 ELSE ec,
                  !.m_state = IF ec > MaxErrorCount THEN "SYNC_SETUP" ELSE @]

hbv_read_data_skip(s) ==
  IF s.m_state = "READ_DATA" /\ s.m_bit_cursor < Len(s.m_bit_values) - 7
  THEN LET s3 == IF s.m_alpha_phase
                 THEN The({hbv_errors(r) : r \in {process_bytes(s, s.m_bit_cursor)}})
                 ELSE s
       IN  [s3 EXCEPT !.m_alpha_phase = ~@, !.m_bit_cursor = @ + 8]
  ELSE s

hbv_read_data_le(s) ==
  IF s.m_state = "READ_DATA" /\ s.m_bit_cursor <= Len(s.m_bit_values) - 7
  THEN LET s3 == IF s.m_alpha_phase
                 THEN The({hbv_errors(r) : r \in {process_bytes(s, s.m_bit_cursor)}})
                 ELSE s
       IN  [s3 EXCEPT !.m_alpha_phase = ~@, !.m_bit_cursor = @ + 7]
  ELSE s

\* handle_bit_value in READ_DATA: process 7-bit characters as they come in,
\* skipping rep characters
hbv_read_data(s) ==
  IF s.m_state = "READ_DATA" /\ s.m_bit_cursor < Len(s.m_bit_values) - 7
  THEN LET s3 == IF s.m_alpha_phase
                 THEN The({hbv_errors(r) : r \in {process_bytes(s, s.m_bit_cursor)}})
                 ELSE s
       IN  [s3 EXCEPT !.m_alpha_phase = ~@, !.m_bit_cursor = @ + 7]
  ELSE s

handle_bit_value_no_dec(s, accumulator) ==
  LET s1 == [s EXCEPT !.m_bit_values = Append(Tail(@), accumulator)]
  IN  The({hbv_read_data(s2) : s2 \in {hbv_sync(s1)}})

\* navtex_rx::handle_bit_value: store the received value in the bit stream,
\* then the SYNC and the READ_DATA parts
handle_bit_value(s, accumulator) ==
  LET s1 == [s EXCEPT !.m_bit_values = Append(Tail(@), accumulator),
                      !.m_bit_cursor = IF @ > 0 THEN @ - 1 ELSE @]
  IN  The({hbv_read_data(s2) : s2 \in {hbv_sync(s1)}})


(***************************************************************************)
(* The decoder object                                                      *)
(***************************************************************************)
\* navtex_rx::navtex_rx: the object after construction.  The constructor has
\* no failure path: ctor_error records that it returns normally whatever the
\* sample rate.  flt_fill is the fill of the two low-pass filters' input
\* blocks.  The bit clock (the early/prompt/late events and accumulators) is
\* not part of the record: the prompt event reaches the decoder as an input.
navtex_rx(sample_rate, only_sitor_b, reverse) ==
  [ m_sample_rate   |-> sample_rate,
    m_only_sitor_b  |-> only_sitor_b,
    m_reverse       |-> reverse,
    m_time_sec      |-> 0,
    m_message_time  |-> 0,
    m_header_found  |-> FALSE,
    m_curr_msg      |-> ccir_message_empty,
    m_sample_count  |-> 0,
    m_pulse_edge_event    |-> FALSE,
    m_averaged_mark_state |-> 0,
    m_state         |-> "SYNC_SETUP",
    m_error_count   |-> 0,
    m_shift         |-> FALSE,
    m_alpha_phase   |-> FALSE,
    m_bit_values    |-> [i \in 1..m_baud_rate |-> 0],
    m_bit_cursor    |-> 0,
    flt_fill        |-> 0,
    ctor_error      |-> "none",
    crashed         |-> FALSE,
    m_out           |-> << >>,
    flushed         |-> << >>,
    last_char       |-> 0 ]


(***************************************************************************)
(* Sample processing                                                       *)
(***************************************************************************)
\* fftfilt::run returns a block of FiltBlock filtered samples once FiltBlock
\* inputs have accumulated, and 0 otherwise
FiltBlock == 256

process_fft_output_sample_stay(s, pulse, prompt_accumulator) ==
  LET s1 == IF pulse
            THEN [s EXCEPT !.m_pulse_edge_event = TRUE,
                           !.m_averaged_mark_state =
                               IF s.m_reverse THEN -prompt_accumulator ELSE prompt_accumulator]
            ELSE [s EXCEPT !.m_pulse_edge_event = FALSE]
      s2 == IF s1.m_state = "SYNC_SETUP"
            THEN [s1 EXCEPT !.m_error_count = 0, !.m_shift = FALSE]
            ELSE IF s1.m_pulse_edge_event
            THEN handle_bit_value(s1, s1.m_averaged_mark_state)
            ELSE s1
  IN  [s2 EXCEPT !.m_sample_count = @ + 1]

process_fft_output_sample_as_is(s, pulse, prompt_accumulator) ==
  LET s1 == IF pulse
            THEN [s EXCEPT !.m_pulse_edge_event = TRUE,
                           !.m_averaged_mark_state = prompt_accumulator]
            ELSE [s EXCEPT !.m_pulse_edge_event = FALSE]
      s2 == IF s1.m_state = "SYNC_SETUP"
            THEN [s1 EXCEPT !.m_error_count = 0, !.m_shift = FALSE, !.m_state = "SYNC"]
            ELSE IF s1.m_pulse_edge_event
            THEN handle_bit_value(s1, s1.m_averaged_mark_state)
            ELSE s1
  IN  [s2 EXCEPT !.m_sample_count = @ + 1]

\* one iteration of the loop of navtex_rx::process_fft_output, after the
\* discriminator and the bit clock: pulse is the value given to
\* m_pulse_edge_event, prompt_accumulator the accumulator at the prompt event
process_fft_output_sample(s, pulse, prompt_accumulator) ==
  LET s1 == IF pulse
            THEN [s EXCEPT !.m_pulse_edge_event = TRUE,
                           !.m_averaged_mark_state =
                               IF s.m_reverse THEN -prompt_accumulator ELSE prompt_accumulator]
            ELSE [s EXCEPT !.m_pulse_edge_event = FALSE]
      s2 == IF s1.m_state = "SYNC_SETUP"
            THEN [s1 EXCEPT !.m_error_count = 0, !.m_shift = FALSE, !.m_state = "SYNC"]
            ELSE IF s1.m_pulse_edge_event
            THEN handle_bit_value(s1, s1.m_averaged_mark_state)
            ELSE s1
  IN  [s2 EXCEPT !.m_sample_count = @ + 1]

\* (int)(m_bit_sample_count * 8), the modulus of process_multicorrelator
multicorrelator_period(s) == CDiv(s.m_sample_rate * 8, m_baud_rate)

\* m_sample_count / m_sample_rate, int by int; 0 where a division by zero
\* does not trap
time_of(count, rate) == IF rate = 0 THEN 0 ELSE CDiv(count, rate)

\* n > 0 iterations of the loop of navtex_rx::process_data during which the
\* filters emit blocks in which no bit is decoded: each iteration sets
\* m_time_sec from m_sample_count, each completed block adds FiltBlock to
\* m_sample_count
run_samples(s, n) ==
  IF n = 0 THEN s
  ELSE LET done    == (s.flt_fill + n) \div FiltBlock
           before  == (s.flt_fill + n - 1) \div FiltBlock
       IN  [s EXCEPT !.m_time_sec = time_of(s.m_sample_count + FiltBlock * before, s.m_sample_rate),
                     !.flt_fill = (s.flt_fill + n) % FiltBlock,
                     !.m_sample_count = @ + FiltBlock * done]

\* the codes handed to process_char, in order
RECURSIVE process_chars(_, _)
process_chars(s, codes) ==
  IF codes = << >> THEN s
  ELSE The({process_chars(s1, Tail(codes)) : s1 \in {process_char(s, Head(codes))}})

\* the loop iteration of process_data that completes a filter block, for a
\* block in which the codes `codes` are accepted by process_bytes
run_block(s, codes) ==
  LET s1 == [s EXCEPT !.m_time_sec = time_of(s.m_sample_count, s.m_sample_rate)]
      s2 == process_chars(s1, codes)
  IN  [s2 EXCEPT !.flt_fill = 0, !.m_sample_count = @ + FiltBlock]

\* the loop of navtex_rx::process_data over nb_samples samples; codes are
\* accepted in the last block the call completes
process_data_loop(s, nb_samples, codes) ==
  LET blocks == (s.flt_fill + nb_samples) \div FiltBlock
      upto   == blocks * FiltBlock - s.flt_fill     \* iterations that complete them
  IN  IF blocks = 0 THEN run_samples(s, nb_samples)
      ELSE run_samples(run_block(run_samples(s, upto - 1), codes), nb_samples - upto)

\* whether the call executes an undefined operation: the division
\* m_sample_count / m_sample_rate by a zero sample rate (every iteration), or
\* the modulus by a zero multicorrelator period (every filtered sample)
undefined_arithmetic(s, nb_samples) ==
  /\ nb_samples > 0
  /\ \/ s.m_sample_rate = 0
     \/ multicorrelator_period(s) = 0 /\ s.flt_fill + nb_samples >= FiltBlock

process_data_timeout_last(s, nb_samples, codes) ==
  IF s.crashed THEN {s} ELSE {process_timeout(process_data_loop(s, nb_samples, codes))}

\* navtex_rx::process_data: the set of decoders the call can leave.  An
\* undefined integer division kills the process (a trap) or, on a build
\* where it does not trap, yields a value and the call goes on.
process_data(s, nb_samples, codes) ==
  IF s.crashed THEN {s}
  ELSE LET s0 == process_timeout(s) IN
       IF undefined_arithmetic(s0, nb_samples)
       THEN {[s0 EXCEPT !.crashed = TRUE], process_data_loop(s0, nb_samples, codes)}
       ELSE {process_data_loop(s0, nb_samples, codes)}

(***************************************************************************)
(* State                                                                   *)
(***************************************************************************)
VARIABLES
  \* the fields of the navtex_rx object
  m_sample_rate, m_only_sitor_b, m_reverse, m_time_sec, m_message_time,
  m_header_found, m_curr_msg, m_sample_count, m_pulse_edge_event,
  m_averaged_mark_state, m_state, m_error_count, m_shift, m_alpha_phase,
  m_bit_values, m_bit_cursor, flt_fill, ctor_error, crashed,
  \* the sink and the messages shown
  m_out, flushed,
  \* static int last_char of process_char: one per process, not per object
  last_char,
  \* the position inside process_data: pc, the samples of the call not yet
  \* consumed, the filtered samples of the block not yet consumed
  pc, remaining, fft_left,
  \* what the last process_bytes call did, and the number of process_data calls
  pb, ncalls,
  \* the input still to come
  env,
  \* a second navtex_rx object of the same process, and each object as it
  \* would be had it run alone on its own input
  peer, alone

rxVars == << m_sample_rate, m_only_sitor_b, m_reverse, m_time_sec, m_message_time,
             m_header_found, m_curr_msg, m_sample_count, m_pulse_edge_event,
             m_averaged_mark_state, m_state, m_error_count, m_shift, m_alpha_phase,
             m_bit_values, m_bit_cursor, flt_fill, ctor_error, crashed,
             m_out, flushed, last_char >>

vars == << rxVars, pc, remaining, fft_left, pb, ncalls, env, peer, alone >>

\* the decoder as a record
Rx ==
  [ m_sample_rate   |-> m_sample_rate,
    m_only_sitor_b  |-> m_only_sitor_b,
    m_reverse       |-> m_reverse,
    m_time_sec      |-> m_time_sec,
    m_message_time  |-> m_message_time,
    m_header_found  |-> m_header_found,
    m_curr_msg      |-> m_curr_msg,
    m_sample_count  |-> m_sample_count,
    m_pulse_edge_event    |-> m_pulse_edge_event,
    m_averaged_mark_state |-> m_averaged_mark_state,
    m_state         |-> m_state,
    m_error_count   |-> m_error_count,
    m_shift         |-> m_shift,
    m_alpha_phase   |-> m_alpha_phase,
    m_bit_values    |-> m_bit_values,
    m_bit_cursor    |-> m_bit_cursor,
    flt_fill        |-> flt_fill,
    ctor_error      |-> ctor_error,
    crashed         |-> crashed,
    m_out           |-> m_out,
    flushed         |-> flushed,
    last_char       |-> last_char ]

\* the decoder is s: in Init unprimed, in an action as the next state
RxIs(s) ==
  /\ m_sample_rate = s.m_sample_rate   /\ m_only_sitor_b = s.m_only_sitor_b
  /\ m_reverse = s.m_reverse           /\ m_time_sec = s.m_time_sec
  /\ m_message_time = s.m_message_time /\ m_header_found = s.m_header_found
  /\ m_curr_msg = s.m_curr_msg         /\ m_sample_count = s.m_sample_count
  /\ m_pulse_edge_event = s.m_pulse_edge_event
  /\ m_averaged_mark_state = s.m_averaged_mark_state
  /\ m_state = s.m_state               /\ m_error_count = s.m_error_count
  /\ m_shift = s.m_shift               /\ m_alpha_phase = s.m_alpha_phase
  /\ m_bit_values = s.m_bit_values     /\ m_bit_cursor = s.m_bit_cursor
  /\ flt_fill = s.flt_fill             /\ ctor_error = s.ctor_error
  /\ crashed = s.crashed               /\ m_out = s.m_out
  /\ flushed = s.flushed               /\ last_char = s.last_char

RxBecomes(s) ==
  /\ m_sample_rate' = s.m_sample_rate   /\ m_only_sitor_b' = s.m_only_sitor_b
  /\ m_reverse' = s.m_reverse           /\ m_time_sec' = s.m_time_sec
  /\ m_message_time' = s.m_message_time /\ m_header_found' = s.m_header_found
  /\ m_curr_msg' = s.m_curr_msg         /\ m_sample_count' = s.m_sample_count
  /\ m_pulse_edge_event' = s.m_pulse_edge_event
  /\ m_averaged_mark_state' = s.m_averaged_mark_state
  /\ m_state' = s.m_state               /\ m_error_count' = s.m_error_count
  /\ m_shift' = s.m_shift               /\ m_alpha_phase' = s.m_alpha_phase
  /\ m_bit_values' = s.m_bit_values     /\ m_bit_cursor' = s.m_bit_cursor
  /\ flt_fill' = s.flt_fill             /\ ctor_error' = s.ctor_error
  /\ crashed' = s.crashed               /\ m_out' = s.m_out
  /\ flushed' = s.flushed               /\ last_char' = s.last_char

\* the fields of one object: everything but the process-wide last_char
ObjectFields == DOMAIN navtex_rx(0, FALSE, FALSE) \ {"last_char"}

ObjectOf(s) == [f \in ObjectFields |-> s[f]]

NoPb == [called |-> FALSE, alpha |-> 0, alpha_valid |-> FALSE, rep |-> 0, ret |-> 0, code |-> -1]

NoEnv == [kind |-> "none"]

(***************************************************************************)
(* SpecCodec: one process_bytes call on a decoder in READ_DATA whose alpha *)
(* slot (at m_bit_cursor) and rep slot (35 bits earlier) hold any two      *)
(* 7-bit patterns                                                          *)
(***************************************************************************)
SampleRate11k == 11025

\* soft-bit magnitude profiles 0..MaxProfile: the magnitude of bit i
MaxProfile == 1

Mag(k, i) == IF k = 0 THEN 2 ELSE ((i * k + k) % 3) + (k % 2)

Soft(code, i, k) == IF BitOf(code, i) = 1 THEN Mag(k, i) ELSE -Mag(k, i)

SlotBits(cur, a, pa, r, pr) ==
  [i \in 1..m_baud_rate |->
     IF i - 1 \in cur..(cur + 6) THEN Soft(a, i - 1 - cur, pa)
     ELSE IF i - 1 \in (cur - FecDistance)..(cur - FecDistance + 6)
          THEN Soft(r, i - 1 - (cur - FecDistance), pr)
     ELSE 0]

\* the cursor values at which handle_bit_value calls process_bytes first
\* (right after synchronisation) and in steady state
CodecCursors == {FecDistance, m_baud_rate - 8}

InitCodec ==
  /\ \E a \in 0..127, r \in 0..127, pa \in 0..MaxProfile, pr \in 0..MaxProfile,
        cur \in CodecCursors :
       RxIs([navtex_rx(SampleRate11k, FALSE, FALSE) EXCEPT
               !.m_state = "READ_DATA", !.m_alpha_phase = TRUE,
               !.m_bit_cursor = cur,
               !.m_bit_values = SlotBits(cur, a, pa, r, pr)])
  /\ pc = "decode" /\ remaining = 0 /\ fft_left = 0
  /\ pb = NoPb /\ ncalls = 0 /\ env = NoEnv
  /\ peer = NoEnv /\ alone = NoEnv

\* handle_bit_value's call process_bytes(m_bit_cursor)
ProcessBytes ==
  /\ pc = "decode"
  /\ LET r == process_bytes(Rx, m_bit_cursor)
         alpha == bytes_to_code(m_bit_values, m_bit_cursor)
     IN  /\ RxBecomes(r.s)
         /\ pb' = [called |-> TRUE, alpha |-> alpha, alpha_valid |-> check_bits(alpha),
                   rep |-> bytes_to_code(m_bit_values, m_bit_cursor - FecDistance),
                   ret |-> r.ret, code |-> r.code]
  /\ pc' = "decoded"
  /\ UNCHANGED << remaining, fft_left, ncalls, env, peer, alone >>

NextCodec == ProcessBytes

SpecCodec == InitCodec /\ [][NextCodec]_vars

(***************************************************************************)
(* Claims on the codec and the FEC combiner (under SpecCodec)              *)
(***************************************************************************)
PopCount(v) == Cardinality({i \in 0..6 : BitOf(v, i) = 1})

OneBitApart(x, y) == Cardinality({i \in 0..6 : BitOf(x, i) /= BitOf(y, i)}) = 1

ControlCodes == {code_ltrs, code_figs, code_alpha, code_beta, code_char32, code_rep}

ValidCodesTable ==
  /\ \A v \in 0..127 : m_valid_codes[v] <=> PopCount(v) = 4
  /\ Cardinality({v \in 0..127 : m_valid_codes[v]}) = 35

\* C1: for every 7-bit value v, check_bits(v) is true exactly when v has four
\* bits set (here v is the packed alpha slot, which takes every value in
\* 0..127), and the table m_valid_codes marks exactly those values, 35 of them.
C1_CheckBitsIsWeight4 ==
  /\ pb.called => (pb.alpha_valid <=> PopCount(pb.alpha) = 4)
  /\ ValidCodesTable

C1_Witness == pb.called /\ pb.alpha_valid /\ pb.alpha = code_beta

\* the case of C2: the rep slot packs to a valid code c and the alpha slot to
\* a code one bit away from c
C2_Case == pb.called /\ PopCount(pb.rep) = 4 /\ OneBitApart(pb.alpha, pb.rep)

\* C2 as stated: in that case process_bytes hands c to process_char.
C2_BitFlipRecovery == C2_Case => pb.code = pb.rep

\* C2 as amended: in that case process_bytes returns 0, and it hands c to
\* process_char unless c is the rep control code 0x66, for which it hands
\* nothing to process_char.
C2_BitFlipRecoveryExceptRep ==
  C2_Case => /\ pb.ret = 0
             /\ pb.code = IF pb.rep = code_rep THEN -1 ELSE pb.rep

C2_Witness == C2_Case /\ pb.rep = code_ltrs /\ pb.code = code_ltrs /\ last_char = code_ltrs

\* the case of C3: both slots pack to the same valid code, not a control code
C3_Case ==
  pb.called /\ pb.alpha = pb.rep /\ PopCount(pb.alpha) = 4 /\ pb.alpha \notin ControlCodes

\* C3: in that case process_bytes hands exactly that code to process_char and
\* returns 0 or +1.
C3_FecIdempotence == C3_Case => pb.code = pb.alpha /\ pb.ret \in {0, 1}

C3_Witness == C3_Case /\ pb.ret = 1 /\ Len(m_out) = 1

(***************************************************************************)
(* SpecMsg: a decoder fed, one accepted code per process_data call of       *)
(* BUFSIZE samples, the codes of a text built around the header "ZCZC AB12" *)
(* and the trailer "NNNN", with silent calls in between                     *)
(***************************************************************************)
hdr_AB12 == << 90, 67, 90, 67, 32, 65, 66, 49, 50 >>     \* "ZCZC AB12"

Prefixes == { << >>, << 13, 10 >>, << 88 >> }            \* "", "\r\n", "X"
Eols     == { << 13, 10 >>, << 10 >>, << 32 >> }         \* "\r\n", "\n", " "
Texts    == { << >>, << 72, 73, 13, 10 >> }              \* "", "HI\r\n"
Suffixes == { << >>, << 13, 10 >> }                      \* "", "\r\n"

MsgScript(prefix, eol, text, suffix) == prefix \o hdr_AB12 \o eol \o text \o stop_valid \o suffix

\* the calls without signal carry BUFSIZE samples or a little over 601 s
SilentSizes == {BUFSIZE, (TimeoutSec + 2) * SampleRate11k}

MaxSilentCalls == 1

InitMsg ==
  /\ \E sitor \in BOOLEAN : RxIs(navtex_rx(SampleRate11k, sitor, FALSE))
  /\ \E prefix \in Prefixes, eol \in Eols, text \in Texts, suffix \in Suffixes :
       env = [kind |-> "msg", prefix |-> prefix, eol |-> eol, text |-> text, suffix |-> suffix,
              codes |-> chars_to_codes(<< >>, MsgScript(prefix, eol, text, suffix), FALSE),
              silences |-> 0, silent |-> TRUE, start_time |-> 0, start_message_time |-> 0]
  /\ pc = "idle" /\ remaining = 0 /\ fft_left = 0 /\ pb = NoPb /\ ncalls = 0
  /\ peer = NoEnv /\ alone = NoEnv

\* process_data(data, BUFSIZE) on samples from which the next code is decoded
ProcessDataCode ==
  /\ pc = "idle" /\ env.kind = "msg" /\ env.codes /= << >>
  /\ \E after \in process_data(Rx, BUFSIZE, << Head(env.codes) >>) : RxBecomes(after)
  /\ env' = [env EXCEPT !.codes = Tail(@), !.silent = FALSE,
                        !.start_time = m_time_sec, !.start_message_time = m_message_time]
  /\ ncalls' = ncalls + 1
  /\ UNCHANGED << pc, remaining, fft_left, pb, peer, alone >>

\* process_data(data, nb_samples) on samples without signal
ProcessDataSilence ==
  /\ pc = "idle" /\ env.kind = "msg" /\ env.silences < MaxSilentCalls
  /\ \E nb_samples \in SilentSizes :
       \E after \in process_data(Rx, nb_samples, << >>) : RxBecomes(after)
  /\ env' = [env EXCEPT !.silences = @ + 1,
                        !.start_time = m_time_sec, !.start_message_time = m_message_time]
  /\ ncalls' = ncalls + 1
  /\ UNCHANGED << pc, remaining, fft_left, pb, peer, alone >>

NextMsg == ProcessDataCode \/ ProcessDataSilence

SpecMsg == InitMsg /\ [][NextMsg]_vars

(***************************************************************************)
(* Claims on the message assembler (under SpecMsg)                          *)
(***************************************************************************)
\* the case of C4: a fresh decoder with only_sitor_b false has been fed the
\* whole text, the header being followed by a line end, before any timeout
C4_Fed ==
  /\ env.kind = "msg" /\ ~m_only_sitor_b /\ env.codes = << >>
  /\ env.eol /= << 32 >> /\ m_time_sec <= TimeoutSec

IsAB12(msg) == msg.m_origin = 65 /\ msg.m_subject = 66 /\ msg.m_number = 12

OnlyBlanks(str) == \A i \in 1..Len(str) : str[i] \in {9, 10, 13, 32}

IsFlushWrite(w) == w.fn = "fputs"

NoFlushWritten == flushed = << >> /\ \A i \in 1..Len(m_out) : ~IsFlushWrite(m_out[i])

\* C10 as stated: with only_sitor_b true no message flush is ever written,
\* whatever the glyphs and the elapsed time, and header_found is true in
\* every state.
C10_NoFlushHeaderAlwaysFound ==
  (env.kind = "msg" /\ m_only_sitor_b) => NoFlushWritten /\ m_header_found

\* C10 as amended: with only_sitor_b true no message flush is ever written,
\* whatever the glyphs and the elapsed time, no header or trailer is cut out of
\* the message (it holds every glyph received, with the default header
\* fields), and header_found is false until the first glyph and true from
\* then on.
C10_NoFlushHeaderFoundAfterFirstGlyph ==
  (env.kind = "msg" /\ m_only_sitor_b) =>
     /\ NoFlushWritten
     /\ m_header_found <=> m_curr_msg.str /= << >>
     /\ m_curr_msg.m_origin = QuestionMark /\ m_curr_msg.m_number = 0
     /\ env.codes = << >> =>
          m_curr_msg.str = MsgScript(env.prefix, env.eol, env.text, env.suffix)

C10_Witness ==
  /\ env.kind = "msg" /\ m_only_sitor_b /\ env.codes = << >> /\ m_header_found
  /\ env.eol = << 13, 10 >> /\ env.text /= << >>
  /\ env.start_time - env.start_message_time > TimeoutSec

(***************************************************************************)
(* SpecClock: a fresh decoder (only_sitor_b false) whose caller splits the  *)
(* samples into process_data calls of any of the sizes ClockSizes; a call    *)
(* carries no signal, or the code of a glyph outside any header              *)
(***************************************************************************)
\* one sample, one buffer, and a little over 300, 600, 601 and 1300 seconds
ClockSizes ==
  {1, BUFSIZE} \cup {sec * SampleRate11k : sec \in {300, TimeoutSec + 1, TimeoutSec + 2, 1300}}

MaxCalls == 5

InitClock ==
  /\ RxIs(navtex_rx(SampleRate11k, FALSE, FALSE))
  /\ env = [kind |-> "clock", prefix |-> << >>, eol |-> << >>, text |-> << >>, suffix |-> << >>,
            codes |-> << >>, silences |-> 0, silent |-> TRUE,
            start_time |-> 0, start_message_time |-> 0]
  /\ pc = "idle" /\ remaining = 0 /\ fft_left = 0 /\ pb = NoPb /\ ncalls = 0
  /\ peer = NoEnv /\ alone = NoEnv

\* process_data(data, nb_samples) on samples without signal
ProcessDataNoSignal ==
  /\ pc = "idle" /\ env.kind = "clock" /\ ncalls < MaxCalls
  /\ \E nb_samples \in ClockSizes :
       \E after \in process_data(Rx, nb_samples, << >>) : RxBecomes(after)
  /\ env' = [env EXCEPT !.silences = @ + 1,
                        !.start_time = m_time_sec, !.start_message_time = m_message_time]
  /\ ncalls' = ncalls + 1
  /\ UNCHANGED << pc, remaining, fft_left, pb, peer, alone >>

\* process_data(data, nb_samples) on samples from which the letter X is decoded
ProcessDataLetter ==
  /\ pc = "idle" /\ env.kind = "clock" /\ ncalls < MaxCalls
  /\ \E nb_samples \in {BUFSIZE, (TimeoutSec + 2) * SampleRate11k} :
       \E after \in process_data(Rx, nb_samples, << m_ltrs_to_code[88] >>) : RxBecomes(after)
  /\ env' = [env EXCEPT !.silent = FALSE,
                        !.start_time = m_time_sec, !.start_message_time = m_message_time]
  /\ ncalls' = ncalls + 1
  /\ UNCHANGED << pc, remaining, fft_left, pb, peer, alone >>

NextClock == ProcessDataNoSignal \/ ProcessDataLetter

SpecClock == InitClock /\ [][NextClock]_vars

(***************************************************************************)
(* Claims on the inactivity timeout (under SpecClock)                       *)
(***************************************************************************)
IsTimeoutWrite(w) ==
  /\ w.fn = "fputs" /\ Len(w.bytes) >= Len(str_timeout)
  /\ SubSeq(w.bytes, Len(w.bytes) - Len(str_timeout) + 1, Len(w.bytes)) = str_timeout

TimeoutWrites(out) == {i \in 1..Len(out) : IsTimeoutWrite(out[i])}

\* the case of C5: no glyph has been decoded since construction
C5_Silence == env.kind = "clock" /\ env.silent

\* C5 as stated: once 600 s or more of silence have passed, exactly one
\* <TIMEOUT> flush has been emitted, at 600 s, however long the silence and
\* however the samples were split into calls.
C5_ExactlyOneTimeoutAt600 ==
  (C5_Silence /\ m_time_sec >= TimeoutSec) =>
     /\ Len(flushed) = 1 /\ Cardinality(TimeoutWrites(m_out)) = 1
     /\ flushed[1].time = TimeoutSec

\* C5 as amended: during silence every flush is a <TIMEOUT> flush of an empty
\* headerless message; one is emitted at the start of a process_data call
\* exactly when m_time_sec is then more than 600 s past the previous flush (or
\* past 0), so the flushes are more than 600 s apart, the first at 601 s or
\* later, and they go on for as long as the silence does.
C5_TimeoutEveryOver600 ==
  C5_Silence =>
     /\ \A k \in 1..Len(flushed) :
          /\ flushed[k].time - (IF k = 1 THEN 0 ELSE flushed[k-1].time) > TimeoutSec
          /\ flushed[k].msg.str = cleanup(str_lost_header \o str_timeout)
     /\ Len(m_out) = Len(flushed) /\ TimeoutWrites(m_out) = 1..Len(m_out)
     /\ m_message_time = IF flushed = << >> THEN 0 ELSE flushed[Len(flushed)].time
     /\ env.start_time - m_message_time <= TimeoutSec

C5_Witness ==
  /\ C5_Silence /\ Len(flushed) = 2
  /\ flushed[1].time = TimeoutSec + 1 /\ flushed[2].time > 2 * TimeoutSec + 1

\* the condition of the timeout, on the state a call starts in
TimeoutDue == ~m_only_sitor_b /\ m_time_sec - m_message_time > TimeoutSec

\* C6: m_time_sec is the sample clock (the sample count divided by the sample
\* rate, as of the last loop iteration), and a process_data call writes a
\* <TIMEOUT> flush only as its first write, exactly when the timeout is due
\* on the state the call starts in: none is written later in the call,
\* however many samples it carries.
C6_TimeoutOnlyAtCallStart ==
  /\ [](env.kind = "clock" =>
          /\ m_time_sec * m_sample_rate <= m_sample_count
          /\ m_sample_count - FiltBlock < (m_time_sec + 1) * m_sample_rate)
  /\ [][ncalls' = ncalls + 1 =>
          TimeoutWrites(SubSeq(m_out', Len(m_out) + 1, Len(m_out')))
             = IF TimeoutDue THEN {1} ELSE {}]_vars

C6_Witness ==
  /\ env.kind = "clock" /\ ~env.silent
  /\ env.start_time - env.start_message_time > TimeoutSec
  /\ m_time_sec - m_message_time > TimeoutSec
  /\ Cardinality(TimeoutWrites(m_out)) = 1 /\ Len(m_out) > 1

(***************************************************************************)
(* SpecFrame: the decoder one filtered sample at a time, on the bits of a   *)
(* SITOR-B transmission of two messages with a fade in it.  The sample rate *)
(* is BitPeriod samples per bit and the prompt events come every BitPeriod  *)
(* filtered samples (the bit clock is not adjusted).                        *)
(***************************************************************************)
BitPeriod == 2

\* m_next_prompt_event starts at m_bit_sample_count / 5: the first sample
\* count that reaches it
PromptOffset == (BitPeriod + 4) \div 5

\* m_pulse_edge_event = m_sample_count >= m_next_prompt_event
PulseAt(sample_count) == sample_count % BitPeriod = PromptOffset % BitPeriod

txt_hello == << 72, 69, 76, 76, 79, 13, 10 >>            \* "HELLO\r\n"

\* two messages ZCZC AB12, one after the other
FrameText ==
  MsgScript(<< 13, 10 >>, << 13, 10 >>, txt_hello, << 13, 10 >>)
    \o MsgScript(<< >>, << 13, 10 >>, txt_hello, << 13, 10 >>)

FrameCodes == chars_to_codes(<< >>, FrameText, FALSE)

\* the 7-bit slots on the air: character k (from 0) goes out in slot 2k + 4
\* and again in slot 2k + 9, 35 bits later; the free slots carry the phasing
\* signals rep (even slots) and alpha (odd slots)
tx_slots(codes) ==
  [n \in 1..(2 * Len(codes) + 8) |->
     LET slot == n - 1
         j    == slot \div 2
     IN  IF slot % 2 = 0
         THEN IF j - 2 \in 0..(Len(codes) - 1) THEN codes[j - 2 + 1] ELSE code_rep
         ELSE IF j - 4 \in 0..(Len(codes) - 1) THEN codes[j - 4 + 1] ELSE code_alpha]

\* the prompt accumulators of the slots, least significant bit first:
\* positive for a mark
tx_bits(slots) ==
  [n \in 1..(7 * Len(slots)) |->
     IF BitOf(slots[((n - 1) \div 7) + 1], (n - 1) % 7) = 1 THEN 2 ELSE -2]

FrameBits == tx_bits(tx_slots(FrameCodes))

FadeStarts == {140, 143}
FadeLens   == {0, 112, 160}
FadeKinds  == {"zero", "inverted"}

\* the accumulator of the next bit of the stream
FrameBit(e) ==
  LET v == FrameBits[e.pos + 1] IN
  IF e.pos \in e.fade_at..(e.fade_at + e.fade_len - 1)
  THEN IF e.fade_kind = "zero" THEN 0 ELSE -v
  ELSE v

FrameCallSizes == {FiltBlock}

InitFrame ==
  /\ RxIs(navtex_rx(m_baud_rate * BitPeriod, FALSE, FALSE))
  /\ \E at \in FadeStarts, len \in FadeLens, kind \in FadeKinds :
       env = [kind |-> "frame", pos |-> 0, fade_at |-> at, fade_len |-> len,
              fade_kind |-> IF len = 0 THEN "zero" ELSE kind, lost |-> 0, resync |-> 0]
  /\ pc = "idle" /\ remaining = 0 /\ fft_left = 0 /\ pb = NoPb /\ ncalls = 0
  /\ peer = NoEnv /\ alone = NoEnv

\* process_data up to its loop: process_timeout()
ProcessDataBegin ==
  /\ pc = "idle" /\ env.kind = "frame" /\ env.pos < Len(FrameBits)
  /\ RxBecomes(process_timeout(Rx))
  /\ \E nb_samples \in FrameCallSizes : remaining' = nb_samples
  /\ pc' = "loop"
  /\ UNCHANGED << fft_left, pb, ncalls, env, peer, alone >>

\* the iterations of the loop of process_data up to the one in which the
\* filters return a block: each sets m_time_sec and feeds the filters
RunFilters ==
  /\ pc = "loop" /\ remaining > 0
  /\ LET n == Min(remaining, FiltBlock - flt_fill) IN
       /\ RxBecomes([Rx EXCEPT !.m_time_sec = time_of(m_sample_count, m_sample_rate),
                               !.flt_fill = (@ + n) % FiltBlock])
       /\ remaining' = remaining - n
       /\ IF flt_fill + n = FiltBlock
          THEN pc' = "fft" /\ fft_left' = FiltBlock
          ELSE pc' = "loop" /\ fft_left' = 0
  /\ UNCHANGED << pb, ncalls, env, peer, alone >>

\* one iteration of the loop of process_fft_output
FilteredSample ==
  /\ pc = "fft" /\ fft_left > 0
  /\ LET pulse == PulseAt(m_sample_count) IN
       /\ pulse => env.pos < Len(FrameBits)
       /\ \E after \in {process_fft_output_sample(Rx, pulse, IF pulse THEN FrameBit(env) ELSE 0)} :
            /\ RxBecomes(after)
            /\ env' = [env EXCEPT
                 !.pos    = IF pulse THEN @ + 1 ELSE @,
                 !.lost   = IF m_state = "READ_DATA" /\ after.m_state = "SYNC_SETUP"
                            THEN @ + 1 ELSE @,
                 !.resync = IF m_state = "SYNC" /\ after.m_state = "READ_DATA" /\ env.lost > 0
                            THEN @ + 1 ELSE @]
  /\ fft_left' = fft_left - 1
  /\ pc' = IF fft_left = 1 THEN "loop" ELSE "fft"
  /\ UNCHANGED << remaining, pb, ncalls, peer, alone >>

\* process_data returns
ProcessDataReturn ==
  /\ pc = "loop" /\ remaining = 0
  /\ pc' = "idle" /\ ncalls' = ncalls + 1
  /\ UNCHANGED << rxVars, remaining, fft_left, pb, env, peer, alone >>

NextFrame == ProcessDataBegin \/ RunFilters \/ FilteredSample \/ ProcessDataReturn

SpecFrame == InitFrame /\ [][NextFrame]_vars

(***************************************************************************)
(* Claims on frame synchronisation (under SpecFrame)                        *)
(***************************************************************************)
Abs(x) == IF x < 0 THEN -x ELSE x

ShiftIn(bits, v) == [i \in 1..Len(bits) |-> IF i < Len(bits) THEN bits[i + 1] ELSE v]

\* the step is one filtered sample
SampleStep == m_sample_count' = m_sample_count + 1

\* C8: sync loss never stops the decoder.  error_count exceeds 5 only in
\* SYNC_SETUP (READ_DATA and SYNC keep it in 0..5); a filtered sample taken in
\* SYNC_SETUP leaves the decoder in SYNC with error_count 0; a prompt-event
\* sample taken in SYNC or READ_DATA shifts its bit into the buffer (where the
\* FEC of READ_DATA may then negate soft bits of the slots it repairs); and such
\* a sample taken in SYNC enters READ_DATA, at the offset found, when
\* find_alpha_characters succeeds on the shifted buffer.
C8_SyncLossNeverStops ==
  /\ [](env.kind = "frame" =>
          /\ m_error_count > MaxErrorCount => m_state = "SYNC_SETUP"
          /\ m_state \in {"SYNC_SETUP", "SYNC", "READ_DATA"}
          /\ m_error_count >= 0)
  /\ [][SampleStep =>
          /\ (m_state = "READ_DATA" /\ m_error_count' > MaxErrorCount)
                => m_state' = "SYNC_SETUP"
          /\ m_state = "SYNC_SETUP" => (m_state' = "SYNC" /\ m_error_count' = 0)
          /\ (m_state /= "SYNC_SETUP" /\ m_pulse_edge_event')
                => /\ m_bit_values'[Len(m_bit_values)] = m_averaged_mark_state'
                   /\ \A i \in 1..(Len(m_bit_values) - 1) :
                         Abs(m_bit_values'[i]) = Abs(m_bit_values[i + 1])
                   /\ m_state = "SYNC" => m_bit_values' = ShiftIn(m_bit_values, m_averaged_mark_state')
          /\ (m_state = "SYNC" /\ m_pulse_edge_event'
                /\ find_alpha_characters(m_bit_values') >= 0)
                => /\ m_state' = "READ_DATA"
                   /\ m_bit_cursor' \in {find_alpha_characters(m_bit_values'),
                                         find_alpha_characters(m_bit_values') + 7}]_vars

C8_Witness ==
  /\ env.kind = "frame" /\ env.lost > 0 /\ env.resync > 0
  /\ m_state = "READ_DATA" /\ Len(flushed) > 0

(***************************************************************************)
(* SpecConfig: decoders constructed with any sample rate, then used          *)
(***************************************************************************)
\* the sample rates given to the constructor: negative, zero, too small for
\* the bit clock, and the driver's
ConfigRates == {-SampleRate11k, -1, 0, 1, 12, SampleRate11k}

ConfigSizes == {1, FiltBlock, BUFSIZE}

InitConfig ==
  /\ \E sample_rate \in ConfigRates, only_sitor_b \in BOOLEAN, reverse \in BOOLEAN :
       RxIs(navtex_rx(sample_rate, only_sitor_b, reverse))
  /\ env = [kind |-> "config"]
  /\ pc = "idle" /\ remaining = 0 /\ fft_left = 0 /\ pb = NoPb /\ ncalls = 0
  /\ peer = NoEnv /\ alone = NoEnv

\* process_data(data, nb_samples) on samples without signal, on whatever
\* decoder the constructor returned
ConfigProcessData ==
  /\ pc = "idle" /\ env.kind = "config" /\ ~crashed /\ ncalls < MaxCalls
  /\ \E nb_samples \in ConfigSizes :
       \E after \in process_data(Rx, nb_samples, << >>) : RxBecomes(after)
  /\ ncalls' = ncalls + 1
  /\ UNCHANGED << pc, remaining, fft_left, pb, env, peer, alone >>

NextConfig == ConfigProcessData

SpecConfig == InitConfig /\ [][NextConfig]_vars

\* C9: construction with sample_rate <= 0 fails with InvalidConfig (baud is
\* not a parameter: the constructor sets it to 100), and no process_data call
\* runs on a decoder with such a sample rate.
C9_InvalidConfigRejected ==
  (env.kind = "config" /\ m_sample_rate <= 0) =>
     (ctor_error = "InvalidConfig" /\ ncalls = 0 /\ ~crashed)

(***************************************************************************)
(* SpecTwo: two decoders of one process, each fed the bits of its own        *)
(* transmission in process_data calls of FiltBlock samples, the calls        *)
(* interleaved in any order (one thread: no two calls overlap).  In each     *)
(* stream one repeat slot arrives as the code 0x66.  The decoders share      *)
(* last_char, the function-static of process_char.                           *)
(***************************************************************************)
\* the loop of process_fft_output over `left` filtered samples, the prompt
\* accumulators taken from bits at pos: [s, pos].  The samples are taken in
\* order, the first half of them and then the rest; a process that has
\* stopped takes no more.
RECURSIVE fft_block(_, _, _, _)
fft_block(s, left, bits, pos) ==
  IF left = 0 THEN [s |-> s, pos |-> pos]
  ELSE IF left = 1
  THEN LET pulse == PulseAt(s.m_sample_count)
           acc   == IF pulse /\ pos < Len(bits) THEN bits[pos + 1] ELSE 0
       IN  [s |-> process_fft_output_sample(s, pulse, acc),
            pos |-> IF pulse THEN pos + 1 ELSE pos]
  ELSE The({IF h.s.crashed THEN h ELSE fft_block(h.s, left - left \div 2, bits, h.pos) :
              h \in {fft_block(s, left \div 2, bits, pos)}})

\* the loop of process_data over `left` samples: [s, pos]
RECURSIVE process_data_bits_loop(_, _, _, _)
process_data_bits_loop(s, left, bits, pos) ==
  IF left = 0 THEN [s |-> s, pos |-> pos]
  ELSE LET n  == Min(left, FiltBlock - s.flt_fill)
           s1 == [s EXCEPT !.m_time_sec = time_of(s.m_sample_count, s.m_sample_rate),
                           !.flt_fill = (@ + n) % FiltBlock]
       IN  IF s.flt_fill + n = FiltBlock
           THEN The({process_data_bits_loop(r.s, left - n, bits, r.pos) :
                       r \in {fft_block(s1, FiltBlock, bits, pos)}})
           ELSE [s |-> s1, pos |-> pos]

\* navtex_rx::process_data on nb_samples samples that carry the bits from pos on
process_data_bits(s, nb_samples, bits, pos) ==
  The({process_data_bits_loop(s0, nb_samples, bits, pos) : s0 \in {process_timeout(s)}})

\* the slots of FrameCodes with slot number inj (from 0) received as 0x66
TwoBits(inj) == tx_bits([tx_slots(FrameCodes) EXCEPT ![inj + 1] = code_rep])

InjectSlots == {35, 37}

\* the calls each decoder gets
TwoCalls == 4

InitTwo ==
  /\ RxIs(navtex_rx(m_baud_rate * BitPeriod, FALSE, FALSE))
  /\ peer = ObjectOf(navtex_rx(m_baud_rate * BitPeriod, FALSE, FALSE))
  /\ alone = [a |-> navtex_rx(m_baud_rate * BitPeriod, FALSE, FALSE),
              b |-> navtex_rx(m_baud_rate * BitPeriod, FALSE, FALSE)]
  /\ \E a_inj \in InjectSlots, b_inj \in InjectSlots :
       env = [kind |-> "two", a_inj |-> a_inj, b_inj |-> b_inj,
              a_pos |-> 0, b_pos |-> 0, a_calls |-> 0, b_calls |-> 0]
  /\ pc = "idle" /\ remaining = 0 /\ fft_left = 0 /\ pb = NoPb /\ ncalls = 0

\* a.process_data(data, FiltBlock)
ProcessDataA ==
  /\ pc = "idle" /\ env.kind = "two" /\ env.a_calls < TwoCalls
  /\ \E r  \in {process_data_bits(Rx, FiltBlock, TwoBits(env.a_inj), env.a_pos)},
        ra \in {process_data_bits(alone.a, FiltBlock, TwoBits(env.a_inj), env.a_pos)} :
         /\ RxBecomes(r.s)
         /\ alone' = [alone EXCEPT !.a = ra.s]
         /\ env' = [env EXCEPT !.a_pos = r.pos, !.a_calls = @ + 1]
  /\ ncalls' = ncalls + 1
  /\ UNCHANGED << pc, remaining, fft_left, pb, peer >>

\* b.process_data(data, FiltBlock): b's fields are peer, last_char is shared
ProcessDataB ==
  /\ pc = "idle" /\ env.kind = "two" /\ env.b_calls < TwoCalls
  /\ \E b \in {[f \in DOMAIN Rx |-> IF f = "last_char" THEN last_char ELSE peer[f]]} :
     \E r  \in {process_data_bits(b, FiltBlock, TwoBits(env.b_inj), env.b_pos)},
        rb \in {process_data_bits(alone.b, FiltBlock, TwoBits(env.b_inj), env.b_pos)} :
         /\ peer' = ObjectOf(r.s)
         /\ last_char' = r.s.last_char
         /\ alone' = [alone EXCEPT !.b = rb.s]
         /\ env' = [env EXCEPT !.b_pos = r.pos, !.b_calls = @ + 1]
  /\ ncalls' = ncalls + 1
  /\ UNCHANGED << m_sample_rate, m_only_sitor_b, m_reverse, m_time_sec, m_message_time,
                  m_header_found, m_curr_msg, m_sample_count, m_pulse_edge_event,
                  m_averaged_mark_state, m_state, m_error_count, m_shift, m_alpha_phase,
                  m_bit_values, m_bit_cursor, flt_fill, ctor_error, crashed, m_out, flushed,
                  pc, remaining, fft_left, pb >>

NextTwo == ProcessDataA \/ ProcessDataB

SpecTwo == InitTwo /\ [][NextTwo]_vars

\* C7: under every interleaving of the two decoders' process_data calls, the
\* state and the output of each decoder are what it has when it runs alone on
\* its own samples.
C7_InstancesIndependent ==
  env.kind = "two" =>
     /\ ObjectOf(Rx) = ObjectOf(alone.a)
     /\ peer = ObjectOf(alone.b)

(***************************************************************************)
(* Claims on what a flush writes (under SpecMsg)                            *)
(***************************************************************************)
\* the writes of put_received_message, in order
FlushWrites(out) == SelectSeq(out, IsFlushWrite)

\* C11: every flush writes the cleaned-up string to the sink: the bytes of the
\* k-th put_received_message are the text of the k-th message shown, which is
\* the flushed string after cleanup.
C11_SinkGetsCleanedText ==
  env.kind = "msg" =>
     /\ Len(FlushWrites(m_out)) = Len(flushed)
     /\ \A k \in 1..Len(flushed) : FlushWrites(m_out)[k].bytes = flushed[k].msg.str

(***************************************************************************)
(* SpecCleanup: ccir_message::cleanup applied to a string of blanks, line   *)
(* ends, a letter and a BELL, and then to its own result                    *)
(***************************************************************************)
CleanupChars == {9, 10, 13, 32, 65, char_bell}           \* \t \n \r ' ' 'A' BELL

MaxCleanLen == 4

\* the strings over S of length n
StringsOfLen(S, n) == [1..n -> S]

InitCleanup ==
  /\ RxIs(navtex_rx(SampleRate11k, FALSE, FALSE))
  /\ \E n \in 0..MaxCleanLen : \E str \in StringsOfLen(CleanupChars, n) :
       env = [kind |-> "cleanup", input |-> str, once |-> << >>, twice |-> << >>, calls |-> 0]
  /\ pc = "idle" /\ remaining = 0 /\ fft_left = 0 /\ pb = NoPb /\ ncalls = 0
  /\ peer = NoEnv /\ alone = NoEnv

\* msg.cleanup() on a message that holds the input
CleanupInput ==
  /\ env.kind = "cleanup" /\ env.calls = 0
  /\ env' = [env EXCEPT !.once = cleanup(env.input), !.calls = 1]
  /\ UNCHANGED << rxVars, pc, remaining, fft_left, pb, ncalls, peer, alone >>

\* msg.cleanup() once more
CleanupAgain ==
  /\ env.kind = "cleanup" /\ env.calls = 1
  /\ env' = [env EXCEPT !.twice = cleanup(env.once), !.calls = 2]
  /\ UNCHANGED << rxVars, pc, remaining, fft_left, pb, ncalls, peer, alone >>

NextCleanup == CleanupInput \/ CleanupAgain

SpecCleanup == InitCleanup /\ [][NextCleanup]_vars

IsBlank(c) == c \in {9, 10, 13, 32}

IsPrintable(c) == c \in 32..126

\* the positions of the characters of str that are not blanks, in order
RECURSIVE InkPositions(_, _)
InkPositions(str, i) ==
  IF i > Len(str) THEN << >>
  ELSE IF IsBlank(str[i]) THEN InkPositions(str, i + 1)
  ELSE << i >> \o InkPositions(str, i + 1)

\* what stands for the blanks of str between positions p and q
RunBetween(str, p, q) ==
  IF \E k \in (p + 1)..(q - 1) : str[k] \in {10, 13} THEN << 10 >>
  ELSE IF q > p + 1 THEN << 32 >>
  ELSE << >>

\* the characters of str that are not blanks, each run of blanks between two
\* of them replaced by one line feed or one space
RECURSIVE JoinRuns(_, _, _)
JoinRuns(str, ps, k) ==
  IF k > Len(ps) THEN << >>
  ELSE (IF k = 1 THEN << >> ELSE RunBetween(str, ps[k - 1], ps[k]))
         \o << str[ps[k]] >> \o JoinRuns(str, ps, k + 1)

CleanupShape(in, out) ==
  /\ \A i \in 1..Len(out) : out[i] /= 13 /\ out[i] /= 9
  /\ \A i \in 1..(Len(out) - 1) : ~(IsBlank(out[i]) /\ IsBlank(out[i + 1]))
  /\ out /= << >> => ~IsBlank(out[1]) /\ ~IsBlank(out[Len(out)])
  /\ out = JoinRuns(in, InkPositions(in, 1), 1)

\* C12: the result of cleanup holds no non-printable character, no CR, no tab,
\* no two adjacent blanks and no blank at either end; a run of blanks with a
\* CR or LF in it has become one LF and any other run one space; cleanup of
\* the result gives the result.
C12_CleanupResult ==
  env.kind = "cleanup" =>
     /\ env.calls >= 1 =>
          /\ \A i \in 1..Len(env.once) : IsPrintable(env.once[i]) \/ env.once[i] = 10
          /\ CleanupShape(env.input, env.once)
     /\ env.calls = 2 => env.twice = env.once

\* the same without the clause on non-printable characters
CleanupResultButPrintable ==
  env.kind = "cleanup" =>
     /\ env.calls >= 1 => CleanupShape(env.input, env.once)
     /\ env.calls = 2 => env.twice = env.once

(***************************************************************************)
(* SpecAssembler: a decoder (only_sitor_b false) fed the codes of a text    *)
(* made of headers, trailers, line ends and text, one accepted code per     *)
(* process_data call of BUFSIZE samples; between two pieces of the text the *)
(* signal may be absent for a little over 601 s                             *)
(***************************************************************************)
AsmTokens ==
  { << 90, 67, 90, 67, 32, 65, 66, 49, 50, 13 >>,      \* "ZCZC AB12\r"
    << 90, 67, 90, 67, 32, 67, 68, 51, 52, 10 >>,      \* "ZCZC CD34\n"
    << 13, 10 >>,                                      \* "\r\n"
    << 88, char_bell, 32 >>,                           \* "X", BELL, " "
    stop_valid }                                       \* "NNNN"

MaxTokens == 3

MaxSilences == 2

InitAssembler ==
  /\ RxIs(navtex_rx(SampleRate11k, FALSE, FALSE))
  /\ env = [kind |-> "asm", ntokens |-> 0, codes |-> << >>, code |-> -1, silences |-> 0]
  /\ pc = "idle" /\ remaining = 0 /\ fft_left = 0 /\ pb = NoPb /\ ncalls = 0
  /\ peer = NoEnv /\ alone = NoEnv

\* the codes still to come: those left of the piece being sent or, at its end,
\* those of any next piece, encoded from the shift the receiver is in
AsmPending ==
  IF env.codes /= << >> THEN {env.codes}
  ELSE IF env.ntokens < MaxTokens
  THEN {chars_to_codes(<< >>, tok, m_shift) : tok \in AsmTokens}
  ELSE {}

\* process_data(data, BUFSIZE) on samples from which the next code is decoded
AsmProcessDataCode ==
  /\ pc = "idle" /\ env.kind = "asm"
  /\ \E cs \in AsmPending :
       /\ \E after \in process_data(Rx, BUFSIZE, << Head(cs) >>) : RxBecomes(after)
       /\ env' = [env EXCEPT !.codes = Tail(cs), !.code = Head(cs),
                             !.ntokens = IF env.codes = << >> THEN @ + 1 ELSE @]
  /\ ncalls' = ncalls + 1
  /\ UNCHANGED << pc, remaining, fft_left, pb, peer, alone >>

\* process_data(data, nb_samples) on a little over 601 s of samples without
\* signal, between two pieces of the text
AsmProcessDataSilence ==
  /\ pc = "idle" /\ env.kind = "asm" /\ env.codes = << >> /\ env.silences < MaxSilences
  /\ \E after \in process_data(Rx, (TimeoutSec + 2) * SampleRate11k, << >>) : RxBecomes(after)
  /\ env' = [env EXCEPT !.silences = @ + 1, !.code = -1]
  /\ ncalls' = ncalls + 1
  /\ UNCHANGED << pc, remaining, fft_left, pb, peer, alone >>

NextAssembler == AsmProcessDataCode \/ AsmProcessDataSilence

SpecAssembler == InitAssembler /\ [][NextAssembler]_vars

(***************************************************************************)
(* Claims on the envelope (under SpecAssembler)                             *)
(***************************************************************************)
\* the glyph that the code fed in this step decodes to; -1 for a shift code
\* and for a step without a code
AsmGlyph ==
  IF env'.code < 0 \/ env'.code \in ControlCodes THEN -1
  ELSE code_to_char(env'.code, m_shift)

\* the text the envelope detection of this step looks at
AsmText == Append(m_curr_msg.str, AsmGlyph)

\* a step that decodes a glyph, no timeout being due when the call starts
AsmGlyphStep ==
  /\ env.kind = "asm" /\ AsmGlyph >= 0
  /\ ~(m_time_sec - m_message_time > TimeoutSec)

EndsWithHeader(str) ==
  /\ Len(str) >= 10
  /\ LET h == SubSeq(str, Len(str) - 9, Len(str)) IN
       /\ SubSeq(h, 1, 5) = << 90, 67, 90, 67, 32 >>
       /\ isalnum(h[6]) /\ isalnum(h[7]) /\ isdigit(h[8]) /\ isdigit(h[9])
       /\ h[10] \in {13, 10}

\* the strings written by the flushes of this step, in order
NewFlushes ==
  LET old == FlushWrites(m_out)
      new == FlushWrites(m_out')
  IN  [k \in 1..(Len(new) - Len(old)) |-> new[Len(old) + k].bytes]

\* the time of the sample at which the code of this step was decoded: the
\* whole seconds of the samples filtered before the last block of the call
AsmDecodeTime == (m_sample_count' - FiltBlock) \div m_sample_rate

\* what a header completed in this step leaves, text being the string that
\* stands for the text in front of it
HeaderOutcome(text) ==
  LET n == Len(AsmText)
      h == SubSeq(AsmText, n - 9, n)
  IN  /\ NewFlushes = IF m_header_found THEN << text \o str_lost_trailer >>
                      ELSE IF text /= << >>
                      THEN << str_lost_header \o text \o str_lost_trailer >>
                      ELSE << >>
      /\ m_curr_msg' = [str |-> << >>, m_origin |-> h[6], m_subject |-> h[7],
                        m_number |-> (h[8] - 48) * 10 + (h[9] - 48)]
      /\ m_header_found'
      /\ m_message_time' = AsmDecodeTime

\* the cleaned-up form of str: no blank at either end, one LF or one space
\* for each run of blanks
Cleaned(str) == JoinRuns(str, InkPositions(str, 1), 1)

\* C13 as stated: a header completed by the glyph of this step flushes the text
\* in front of it as '<text>:[Lost trailer]' when a header was open and, when
\* none was and the text is not empty, as '[Lost header]:<text>:[Lost trailer]';
\* the accumulator is cleared, origin, subject and number are those of the
\* header, header_found is true and the last-activity time is the current time.
C13_HeaderFlushesText ==
  [][(AsmGlyphStep /\ EndsWithHeader(AsmText)) =>
        HeaderOutcome(SubSeq(AsmText, 1, Len(AsmText) - 10))]_vars

\* C13 as amended: the same with the text in front of the header cleaned up
\* before it is tested for being empty and before the markers are added.
C13_HeaderFlushesCleanedText ==
  [][(AsmGlyphStep /\ EndsWithHeader(AsmText)) =>
        HeaderOutcome(Cleaned(SubSeq(AsmText, 1, Len(AsmText) - 10)))]_vars

\* a second header has arrived while the first was open, behind text that
\* ends with a blank
C13_Witness ==
  /\ env.kind = "asm" /\ m_header_found /\ m_curr_msg.str = << >>
  /\ m_curr_msg.m_origin = 67 /\ m_curr_msg.m_number = 34
  /\ Len(flushed) = 1 /\ flushed[1].msg.m_origin = 65
  /\ FlushWrites(m_out)[1].bytes = << 88, char_bell >> \o str_lost_trailer

EndsWithTrailer(str) ==
  Len(str) >= 4 /\ SubSeq(str, Len(str) - 3, Len(str)) = << 78, 78, 78, 78 >>

\* the message objects shown by the flushes of this step, in order
NewShown == [k \in 1..(Len(flushed') - Len(flushed)) |-> flushed'[Len(flushed) + k].msg]

Filtered(g) == IF g = char_bell THEN << 39 >> ELSE IF g = 13 THEN << >> ELSE << g >>

\* the characters written one by one (putc) in this step, in order
NewGlyphWrites ==
  LET IsPutc(w) == w.fn = "putc"
      old == SelectSeq(m_out, IsPutc)
      new == SelectSeq(m_out', IsPutc)
  IN  [k \in 1..(Len(new) - Len(old)) |-> new[Len(old) + k].bytes[1]]

\* the accumulator after a step in which envelope detection has seen str
AccumulatorAfter(str) ==
  IF EndsWithHeader(str) \/ EndsWithTrailer(str) THEN << >> ELSE str

\* C15 as stated: the glyph of a step is appended to the current message
\* filtered (BELL as an apostrophe, CR dropped, any other glyph unchanged), and
\* envelope detection sees the filtered text.
C15_MessageGetsFilteredGlyphs ==
  [][AsmGlyphStep =>
        m_curr_msg'.str = AccumulatorAfter(m_curr_msg.str \o Filtered(AsmGlyph))]_vars

\* C15 as amended: the filter applies to the glyphs written to the sink one by
\* one (BELL is written as an apostrophe, CR is not written, any other glyph is
\* written unchanged); the glyph is appended to the current message as it
\* is, BELL and CR included, and envelope detection sees that unfiltered text.
C15_SinkGetsFilteredGlyphs ==
  [][AsmGlyphStep =>
        /\ NewGlyphWrites = Filtered(AsmGlyph)
        /\ m_curr_msg'.str = AccumulatorAfter(Append(m_curr_msg.str, AsmGlyph))]_vars

\* CR, LF, X and BELL have been decoded: the sink has LF, X and an apostrophe,
\* the current message has all four glyphs as they are
C15_Witness ==
  /\ env.kind = "asm" /\ m_curr_msg.str = << 13, 10, 88, char_bell >>
  /\ m_out = << [fn |-> "putc", bytes |-> << 10 >>], [fn |-> "putc", bytes |-> << 88 >>],
                [fn |-> "putc", bytes |-> << 39 >>] >>


(***************************************************************************)
(* Claims on the timeout of a message (under SpecAssembler)                 *)
(***************************************************************************)
\* a process_data call that starts with the timeout due
AsmTimeoutStep == env.kind = "asm" /\ TimeoutDue

\* sub occurs in str
HasSubSeq(str, sub) ==
  \E k \in 0..(Len(str) - Len(sub)) : SubSeq(str, k + 1, k + Len(sub)) = sub

\* what the call leaves after its timeout flush: no header open, and in the
\* accumulator only the glyph the call itself has decoded since, if any
AfterTimeoutFlush ==
  /\ ~m_header_found'
  /\ m_curr_msg'.str = IF AsmGlyph >= 0 THEN << AsmGlyph >> ELSE << >>
  /\ m_message_time' = m_time_sec

\* C16 as stated: a call that starts more than 600 s after the last envelope
\* boundary writes a single flush; with a header open its string is the
\* partial text, then a lost-trailer annotation, and ends with ':<TIMEOUT>';
\* without one it is '[Lost header]:' + text + ':<TIMEOUT>'; after it
\* header_found is false and the accumulator is empty.
C16_TimeoutFlushHasLostTrailer ==
  [][AsmTimeoutStep =>
        /\ Len(NewFlushes) = 1
        /\ IF m_header_found
           THEN LET f == NewFlushes[1]
                    n == Len(m_curr_msg.str)
                IN  /\ Len(f) >= n + Len(str_timeout)
                    /\ SubSeq(f, 1, n) = m_curr_msg.str
                    /\ SubSeq(f, Len(f) - Len(str_timeout) + 1, Len(f)) = str_timeout
                    /\ HasSubSeq(SubSeq(f, n + 1, Len(f)), Tail(str_lost_trailer))
           ELSE NewFlushes[1] = str_lost_header \o m_curr_msg.str \o str_timeout
        /\ AfterTimeoutFlush]_vars

\* C16 as amended: a call that starts more than 600 s after the last envelope
\* boundary writes a single flush; with a header open its string is the
\* partial text followed by ':<TIMEOUT>' and nothing else; without one it is
\* '[Lost header]:' + text + ':<TIMEOUT>'; after it header_found is false and
\* the accumulator is empty.
C16_TimeoutFlushIsTextAndSuffix ==
  [][AsmTimeoutStep =>
        /\ NewFlushes = << IF m_header_found
                           THEN m_curr_msg.str \o str_timeout
                           ELSE str_lost_header \o m_curr_msg.str \o str_timeout >>
        /\ AfterTimeoutFlush]_vars

\* a header, then X, BELL and a space, then silence: the second call of the
\* silence has flushed the three glyphs with the suffix and nothing else
C16_Witness ==
  /\ env.kind = "asm" /\ env.silences = 2
  /\ FlushWrites(m_out) /= << >>
  /\ FlushWrites(m_out)[Len(FlushWrites(m_out))].bytes = << 88, char_bell, 32 >> \o str_timeout
  /\ ~m_header_found /\ m_curr_msg.str = << >>


(***************************************************************************)
(* SpecSink: a text is decoded code by code into a sink whose writes may   *)
(* fail.  m_out is the sequence of the write calls made; a failed putc or   *)
(* fputs returns EOF and sets the error indicator of the stream, which      *)
(* belongs to the caller; process_data returns void.                        *)
(***************************************************************************)
SinkTokens ==
  { << 90, 67, 90, 67, 32, 65, 66, 49, 50, 13 >>,      \* "ZCZC AB12\r"
    << 88 >>,                                          \* "X"
    stop_valid }                                       \* "NNNN"

MaxSinkTokens == 3

\* what a call of process_data hands back to its caller
process_data_returns == "void"

InitSink ==
  /\ RxIs(navtex_rx(SampleRate11k, FALSE, FALSE))
  /\ env = [kind |-> "sink", ntokens |-> 0, codes |-> << >>, code |-> -1,
            failed |-> 0, ferror |-> FALSE, returned |-> "none"]
  /\ pc = "idle" /\ remaining = 0 /\ fft_left = 0 /\ pb = NoPb /\ ncalls = 0
  /\ peer = NoEnv /\ alone = NoEnv

SinkPending ==
  IF env.codes /= << >> THEN {env.codes}
  ELSE IF env.ntokens < MaxSinkTokens
  THEN {chars_to_codes(<< >>, tok, m_shift) : tok \in SinkTokens}
  ELSE {}

\* process_data(data, BUFSIZE) on samples from which the next code is decoded,
\* the writes of the call succeeding (sink_ok) or failing
SinkProcessData ==
  /\ pc = "idle" /\ env.kind = "sink"
  /\ \E cs \in SinkPending, sink_ok \in BOOLEAN :
       /\ \E after \in process_data(Rx, BUFSIZE, << Head(cs) >>) :
            /\ RxBecomes(after)
            /\ env' = [env EXCEPT
                 !.codes = Tail(cs), !.code = Head(cs),
                 !.ntokens = IF env.codes = << >> THEN @ + 1 ELSE @,
                 !.failed = IF sink_ok THEN 0 ELSE Len(after.m_out) - Len(m_out),
                 !.ferror = @ \/ (~sink_ok /\ Len(after.m_out) > Len(m_out)),
                 !.returned = process_data_returns]
  /\ ncalls' = ncalls + 1
  /\ UNCHANGED << pc, remaining, fft_left, pb, peer, alone >>

NextSink == SinkProcessData

SpecSink == InitSink /\ [][NextSink]_vars

\* C17: when a glyph write or a flush of a process_data call has failed, the
\* call reports an error to its caller.
C17_SinkErrorPropagated ==
  (env.kind = "sink" /\ env.failed > 0) => env.returned = "error"


(***************************************************************************)
(* SpecTable: a glyph of the tables is encoded by char_to_code from either  *)
(* shift, and the codes are decoded one by one by a receiver in that shift  *)
(***************************************************************************)
\* the glyphs of a table: every entry but '_'
GlyphsOf(table) == {table[code + 1] : code \in 0..127} \ {UnderscoreChar}

TableGlyphs == GlyphsOf(code_to_ltrs) \cup GlyphsOf(code_to_figs)

InitTable ==
  /\ \E g \in TableGlyphs, shift \in BOOLEAN :
       /\ RxIs([navtex_rx(SampleRate11k, FALSE, FALSE) EXCEPT !.m_shift = shift])
       /\ env = [kind |-> "table", g |-> g, shift |-> shift, stage |-> "glyph",
                 sent |-> << >>, codes |-> << >>, tx_shift |-> shift]
  /\ pc = "idle" /\ remaining = 0 /\ fft_left = 0 /\ pb = NoPb /\ ncalls = 0
  /\ peer = NoEnv /\ alone = NoEnv

\* char_to_code(str, g, shift) on an empty str
TableEncode ==
  /\ env.kind = "table" /\ env.stage = "glyph"
  /\ \E r \in {char_to_code(<< >>, env.g, env.shift)} :
       env' = [env EXCEPT !.stage = "coded", !.sent = r.str, !.codes = r.str,
                          !.tx_shift = r.ex_shift]
  /\ RxBecomes(Rx)
  /\ UNCHANGED << pc, remaining, fft_left, pb, ncalls, peer, alone >>

\* process_char on the next code
TableDecode ==
  /\ env.kind = "table" /\ env.stage = "coded" /\ env.codes /= << >>
  /\ \E after \in {process_char(Rx, Head(env.codes))} : RxBecomes(after)
  /\ env' = [env EXCEPT !.codes = Tail(@)]
  /\ UNCHANGED << pc, remaining, fft_left, pb, ncalls, peer, alone >>

NextTable == TableEncode \/ TableDecode

SpecTable == InitTable /\ [][NextTable]_vars

\* all the codes of the glyph have been decoded
TableDecoded == env.kind = "table" /\ env.stage = "coded" /\ env.codes = << >>

\* C18: for every glyph g of the LTRS or the FIGS table and every starting
\* shift, the codes char_to_code gives for g decode to g alone, the receiver
\* ending in the shift of the sender, and there is a shift code among them
\* only when g is not in the table of the starting shift.
C18_TableRoundTrip ==
  TableDecoded =>
     /\ m_curr_msg.str = << env.g >>
     /\ m_shift = env.tx_shift
     /\ env.sent /= << >>
     /\ (\E k \in 1..Len(env.sent) : env.sent[k] \in {code_ltrs, code_figs}) =>
           env.g \notin GlyphsOf(IF env.shift THEN code_to_figs ELSE code_to_ltrs)

\* the glyph '?' sent from the letters shift: a shift code, then its code,
\* decoded to '?'
C18_Witness ==
  /\ TableDecoded /\ env.g = QuestionMark /\ ~env.shift
  /\ env.sent = << code_figs, m_figs_to_code[QuestionMark] >>
  /\ m_curr_msg.str = << QuestionMark >> /\ m_shift


(***************************************************************************)
(* SpecReverse: the stream of SpecFrame goes to a decoder constructed with  *)
(* reverse = false (peer), and with every accumulator negated to a decoder  *)
(* constructed with reverse = true (the variables), sample by sample        *)
(***************************************************************************)
\* the accumulator of the next bit: that of the stream, at half its
\* magnitude on every third bit of a weak stream
RevBit(e) ==
  LET v == FrameBit(e) IN
  IF e.weak /\ e.pos % 3 = 0 THEN (IF v < 0 THEN -((-v) \div 2) ELSE v \div 2) ELSE v

InitReverse ==
  /\ RxIs(navtex_rx(m_baud_rate * BitPeriod, FALSE, TRUE))
  /\ peer = navtex_rx(m_baud_rate * BitPeriod, FALSE, FALSE)
  /\ \E at \in FadeStarts, len \in FadeLens, kind \in FadeKinds, weak \in BOOLEAN :
       env = [kind |-> "reverse", pos |-> 0, fade_at |-> at, fade_len |-> len,
              fade_kind |-> IF len = 0 THEN "zero" ELSE kind, weak |-> weak]
  /\ pc = "idle" /\ remaining = 0 /\ fft_left = 0 /\ pb = NoPb /\ ncalls = 0
  /\ alone = NoEnv

\* process_data up to its loop, in both decoders
RevProcessDataBegin ==
  /\ pc = "idle" /\ env.kind = "reverse" /\ env.pos < Len(FrameBits)
  /\ RxBecomes(process_timeout(Rx))
  /\ peer' = process_timeout(peer)
  /\ \E nb_samples \in FrameCallSizes : remaining' = nb_samples
  /\ pc' = "loop"
  /\ UNCHANGED << fft_left, pb, ncalls, env, alone >>

\* the iterations of the loop of process_data up to the one in which the
\* filters return a block, in both decoders
RevRunFilters ==
  /\ pc = "loop" /\ env.kind = "reverse" /\ remaining > 0
  /\ LET n == Min(remaining, FiltBlock - flt_fill) IN
       /\ RxBecomes([Rx EXCEPT !.m_time_sec = time_of(m_sample_count, m_sample_rate),
                               !.flt_fill = (@ + n) % FiltBlock])
       /\ peer' = [peer EXCEPT !.m_time_sec = time_of(peer.m_sample_count, peer.m_sample_rate),
                               !.flt_fill = (@ + n) % FiltBlock]
       /\ remaining' = remaining - n
       /\ IF flt_fill + n = FiltBlock
          THEN pc' = "fft" /\ fft_left' = FiltBlock
          ELSE pc' = "loop" /\ fft_left' = 0
  /\ UNCHANGED << pb, ncalls, env, alone >>

\* one iteration of the loop of process_fft_output, in both decoders: the
\* accumulator of the reversed decoder is the negated one
RevFilteredSample ==
  /\ pc = "fft" /\ env.kind = "reverse" /\ fft_left > 0
  /\ LET pulse == PulseAt(m_sample_count) IN
       /\ pulse => env.pos < Len(FrameBits)
       /\ \E acc \in {IF pulse THEN RevBit(env) ELSE 0} :
          \E after \in {process_fft_output_sample(Rx, pulse, -acc)},
             after_peer \in {process_fft_output_sample(peer, pulse, acc)} :
            /\ RxBecomes(after)
            /\ peer' = after_peer
       /\ env' = [env EXCEPT !.pos = IF pulse THEN @ + 1 ELSE @]
  /\ fft_left' = fft_left - 1
  /\ pc' = IF fft_left = 1 THEN "loop" ELSE "fft"
  /\ UNCHANGED << remaining, pb, ncalls, alone >>

NextReverse ==
  RevProcessDataBegin \/ RevRunFilters \/ RevFilteredSample \/ ProcessDataReturn

SpecReverse == InitReverse /\ [][NextReverse]_vars

\* C19: after every sample, and so after every bit, the decoder with reverse
\* = true on the negated accumulators has the bit buffer, the frame-sync state,
\* the output and every other field, m_reverse apart, of the decoder with
\* reverse = false on the accumulators as they are.
C19_ReverseEquivalent ==
  env.kind = "reverse" => [Rx EXCEPT !.m_reverse = FALSE] = peer

\* both decoders have lost the frame in a fade, found it again and written
\* the same text
C19_Witness ==
  /\ env.kind = "reverse" /\ m_reverse /\ ~peer.m_reverse
  /\ env.fade_len > 0 /\ env.pos > env.fade_at + env.fade_len
  /\ m_state = "READ_DATA" /\ m_out /= << >> /\ peer.m_out = m_out
  /\ m_bit_values = peer.m_bit_values /\ \E k \in 1..Len(m_bit_values) : m_bit_values[k] < 0


(***************************************************************************)
(* Claims on the indices into m_bit_values (under SpecFrame)                *)
(***************************************************************************)
\* the values of i in find_alpha_characters at which a character is read:
\* offset, offset + 7, ... below limit, for the 14 offsets from 35
fac_indices(len) ==
  {i \in 0..len : \E offset \in FecDistance..(FecDistance + 13) :
                     i >= offset /\ (i - offset) % 7 = 0 /\ i < len - 7}

\* a sample of the frame stream on which handle_bit_value runs
FrameBitStep ==
  /\ pc = "fft" /\ env.kind = "frame" /\ fft_left > 0
  /\ PulseAt(m_sample_count) /\ m_state /= "SYNC_SETUP"

\* the decoder where handle_bit_value of this step reaches its READ_DATA part
FrameAtReadData ==
  hbv_sync([Rx EXCEPT !.m_bit_values = Append(Tail(@), FrameBit(env)),
                      !.m_bit_cursor = IF @ > 0 THEN @ - 1 ELSE @])

\* C20: m_bit_cursor is within 0..len-1 in every state; whenever
\* handle_bit_value calls process_bytes, m_bit_cursor is within 0..len-7 and
\* its REP position m_bit_cursor - 35 is not negative, so that process_bytes
\* never returns at 'fec_offset < 0'; and every i of find_alpha_characters has
\* i, i - 35 and i - 7 within 0..len-7.
C20_BitBufferIndexSafety ==
  /\ [](env.kind = "frame" => m_bit_cursor \in 0..(Len(m_bit_values) - 1))
  /\ [][FrameBitStep =>
          \A s \in {FrameAtReadData} :
             (s.m_state = "READ_DATA" /\ s.m_bit_cursor < Len(s.m_bit_values) - 7
                /\ s.m_alpha_phase)
             => /\ s.m_bit_cursor \in 0..(Len(s.m_bit_values) - 7)
                /\ fec_offset(s.m_bit_cursor) >= 0]_vars
  /\ [](\A i \in fac_indices(Len(m_bit_values)) :
           {i, fec_offset(i), i - 7} \subseteq 0..(Len(m_bit_values) - 7))

\* the frame has been lost in a fade and found again, and process_bytes has
\* just been called on the character at the cursor
C20_Witness ==
  /\ env.kind = "frame" /\ env.resync > 0 /\ m_state = "READ_DATA"
  /\ m_pulse_edge_event /\ ~m_alpha_phase /\ m_bit_cursor = Len(m_bit_values) - 1


(***************************************************************************)
(* Claims on the order of the writes (under SpecAssembler)                  *)
(***************************************************************************)
\* the writes of this step, in order
NewWrites == SubSeq(m_out', Len(m_out) + 1, Len(m_out'))

\* the write of the timeout flush of a call that starts with the timeout due
TimeoutWriteOfStep ==
  IF TimeoutDue
  THEN << [fn |-> "fputs",
           bytes |-> IF m_header_found THEN m_curr_msg.str \o str_timeout
                     ELSE str_lost_header \o m_curr_msg.str \o str_timeout] >>
  ELSE << >>

\* the write of the glyph decoded in this step: one byte, none for a CR
GlyphWriteOfStep ==
  IF AsmGlyph < 0 THEN << >>
  ELSE [k \in 1..Len(Filtered(AsmGlyph)) |-> [fn |-> "putc", bytes |-> << Filtered(AsmGlyph)[k] >>]]

\* C21: the sink only grows; the writes of a process_data call are, in this
\* order, the timeout flush if one is due, the one byte of the glyph decoded
\* (none for a CR), written before envelope detection runs for it, and then at
\* most one message flush, a single fputs of a whole message string written
\* after the byte of the glyph that completes the message.
C21_GlyphWrittenBeforeFlush ==
  [][env.kind = "asm" =>
        LET first == TimeoutWriteOfStep \o GlyphWriteOfStep
            n     == Len(first)
        IN  /\ Len(m_out') >= Len(m_out) /\ SubSeq(m_out', 1, Len(m_out)) = m_out
            /\ Len(NewWrites) \in {n, n + 1}
            /\ SubSeq(NewWrites, 1, n) = first
            /\ Len(NewWrites) = n + 1 =>
                 /\ NewWrites[n + 1].fn = "fputs"
                 /\ AsmGlyph >= 0
                 /\ LET text == IF TimeoutDue THEN << AsmGlyph >> ELSE AsmText
                    IN  EndsWithHeader(text) \/ EndsWithTrailer(text)]_vars

\* the last N of a trailer has been written, and after it the flush of the
\* message, its whole text in one write
C21_Witness ==
  /\ env.kind = "asm" /\ Len(m_out) >= 2
  /\ m_out[Len(m_out) - 1] = [fn |-> "putc", bytes |-> << 78 >>]
  /\ m_out[Len(m_out)] = [fn |-> "fputs", bytes |-> << 88, char_bell, 32 >>]


(***************************************************************************)
(* Claims on the frame-sync state machine (under SpecFrame)                 *)
(***************************************************************************)
\* C22: m_state changes only in a filtered sample.  A sample taken in
\* SYNC_SETUP leaves SYNC, error_count 0 and the letters shift.  A sample taken
\* in SYNC stays there without a pulse edge; with one it goes to READ_DATA when
\* find_alpha_characters returns an offset >= 0 on the shifted buffer
\* (m_bit_cursor is set to the offset and m_alpha_phase to true, and the slot
\* at the offset is read in the same event, which leaves the cursor 7 further
\* and the phase toggled) and to SYNC_SETUP when it returns -1.  A sample taken
\* in READ_DATA stays there or goes to SYNC_SETUP, the latter exactly when
\* error_count has passed 5.  No step goes from READ_DATA to SYNC or from
\* SYNC_SETUP to READ_DATA.
C22_FrameSyncTransitions ==
  [][env.kind = "frame" =>
        /\ m_state' /= m_state => SampleStep
        /\ (SampleStep /\ m_state = "SYNC_SETUP")
              => (m_state' = "SYNC" /\ m_error_count' = 0 /\ ~m_shift')
        /\ (SampleStep /\ m_state = "SYNC" /\ ~m_pulse_edge_event') => m_state' = "SYNC"
        /\ (SampleStep /\ m_state = "SYNC" /\ m_pulse_edge_event')
              => \E offset \in {find_alpha_characters(ShiftIn(m_bit_values, m_averaged_mark_state'))} :
                   IF offset >= 0
                   THEN /\ m_state' = "READ_DATA"
                        /\ FrameAtReadData.m_bit_cursor = offset
                        /\ FrameAtReadData.m_alpha_phase
                        /\ m_bit_cursor' = offset + 7 /\ ~m_alpha_phase'
                   ELSE /\ offset = -1 /\ m_state' = "SYNC_SETUP"
        /\ (SampleStep /\ m_state = "READ_DATA")
              => /\ m_state' \in {"READ_DATA", "SYNC_SETUP"}
                 /\ m_state' = "SYNC_SETUP" <=> m_error_count' > MaxErrorCount]_vars

\* the decoder has synchronised, lost the frame, failed to find it on a first
\* bit and is about to try again
C22_Witness ==
  /\ env.kind = "frame" /\ env.lost > 0 /\ env.resync = 0
  /\ m_state = "SYNC" /\ m_error_count = 0 /\ m_bit_cursor < FecDistance


FrameReadDataStep ==
  /\ env.kind = "frame" /\ SampleStep /\ m_pulse_edge_event'
  /\ m_state /= "SYNC_SETUP" /\ FrameAtReadData.m_state = "READ_DATA"

\* C24 as stated: a pulse-edge event in READ_DATA processes every pending slot,
\* so that after it m_bit_cursor > len - 7.
C24_EventDrainsPendingSlots ==
  [][FrameReadDataStep => m_bit_cursor' > Len(m_bit_values) - 7]_vars

\* C24 as amended: a pulse-edge event in READ_DATA processes at most one slot:
\* if m_bit_cursor, after its decrement, is below len - 7, the slot there is
\* decoded when m_alpha_phase is true (error_count loses the result and is
\* floored at 0), m_alpha_phase is toggled and m_bit_cursor advances by 7,
\* once; otherwise nothing but the shift happens.  After the event
\* m_bit_cursor may still be below len - 7.
C24_EventProcessesOneSlot ==
  [][FrameReadDataStep =>
        \A s \in {FrameAtReadData} :
           LET len == Len(m_bit_values) IN
           IF s.m_bit_cursor < len - 7
           THEN /\ m_bit_cursor' = s.m_bit_cursor + 7
                /\ IF s.m_alpha_phase
                   THEN \E r \in {process_bytes(s, s.m_bit_cursor)} :
                          /\ m_alpha_phase' = ~r.s.m_alpha_phase
                          /\ m_error_count' = IF s.m_error_count - r.ret < 0 THEN 0
                                              ELSE s.m_error_count - r.ret
                          /\ m_out' = r.s.m_out /\ m_bit_values' = r.s.m_bit_values
                   ELSE /\ m_alpha_phase'
                        /\ m_bit_values' = s.m_bit_values
                        /\ UNCHANGED << m_error_count, m_out, m_shift, m_curr_msg, last_char >>
           ELSE /\ m_bit_cursor' = s.m_bit_cursor
                /\ m_bit_values' = s.m_bit_values
                /\ UNCHANGED << m_alpha_phase, m_error_count, m_out, m_shift, m_curr_msg,
                                last_char, m_state >>]_vars

\* two events after synchronisation: two slots have been read, one at each
\* event, and the cursor is still below len - 7
C24_Witness ==
  /\ env.kind = "frame" /\ m_state = "READ_DATA" /\ m_pulse_edge_event
  /\ m_bit_cursor \in (FecDistance + 12)..(Len(m_bit_values) - 8)
  /\ m_alpha_phase


\* C25: m_error_count is within 0..7 in every state, and within 0..5 whenever
\* a decode attempt starts; the attempt subtracts the result of process_bytes
\* (1, 0, -1 or -2) from it, the difference is floored at 0, and READ_DATA is
\* left for SYNC_SETUP exactly when the difference is above 5; a hard failure
\* (-2) writes nothing, leaves the message text alone and raises
\* m_error_count by 2, so that the third of three in a row from 0 forces
\* SYNC_SETUP.
C25_ErrorCountAccounting ==
  /\ [](env.kind = "frame" => m_error_count \in 0..(MaxErrorCount + 2))
  /\ [][FrameReadDataStep =>
          \A s \in {FrameAtReadData} :
             (s.m_bit_cursor < Len(s.m_bit_values) - 7 /\ s.m_alpha_phase) =>
                \E r \in {process_bytes(s, s.m_bit_cursor)} :
                  \E ec \in {s.m_error_count - r.ret} :
                   /\ s.m_error_count \in 0..MaxErrorCount
                   /\ r.ret \in {1, 0, -1, -2}
                   /\ m_error_count' = IF ec < 0 THEN 0 ELSE ec
                   /\ m_state' = IF ec > MaxErrorCount THEN "SYNC_SETUP" ELSE "READ_DATA"
                   /\ r.ret = -2 =>
                        /\ m_error_count' = s.m_error_count + 2
                        /\ UNCHANGED << m_out, m_curr_msg, m_shift, last_char, flushed >>
                        /\ (s.m_error_count = 4 => m_state' = "SYNC_SETUP")]_vars

\* in a stretch of zeroed bits the third hard failure in a row has taken
\* m_error_count from 4 to 6 and the decoder to SYNC_SETUP, for the first time
C25_Witness ==
  /\ env.kind = "frame" /\ env.fade_kind = "zero" /\ env.fade_len > 0
  /\ m_state = "SYNC_SETUP" /\ m_error_count = MaxErrorCount + 1 /\ env.lost = 1
  /\ m_averaged_mark_state = 0


(***************************************************************************)
(* SpecSync: find_alpha_characters on the bit buffers a decoder in SYNC     *)
(* holds: 100 bits of the frame stream from any bit on, with a stretch of   *)
(* the buffer zeroed or inverted                                            *)
(***************************************************************************)
MaxSyncStart == 27

SyncDamageAt   == {0, 36, 43, 64, 71}
SyncDamageLens == {0, 7, 20, 29, 43, 50}
SyncDamageKinds == {"zero", "inverted"}

\* the pairs of phasing signals, rep then alpha, sent in front of the frame
SyncPhasingPairs == {0, 6}

\* the stream: n pairs of phasing signals, then the slots of the frame
SyncBits(n) ==
  tx_bits([k \in 1..(2 * n) |-> IF k % 2 = 1 THEN code_rep ELSE code_alpha]
            \o tx_slots(FrameCodes))

\* the buffer after the bits start+1 .. start+100 of the stream have come in
SyncWindow(stream, start, at, len, kind) ==
  [i \in 1..m_baud_rate |->
     LET v == stream[start + i] IN
     IF (i - 1) \in at..(at + len - 1)
     THEN IF kind = "zero" THEN 0 ELSE -v
     ELSE v]

InitSync ==
  /\ \E n \in SyncPhasingPairs, start \in 0..MaxSyncStart, at \in SyncDamageAt,
        len \in SyncDamageLens, kind \in SyncDamageKinds :
       /\ \E stream \in {SyncBits(n)} :
            RxIs([navtex_rx(SampleRate11k, FALSE, FALSE) EXCEPT
                    !.m_state = "SYNC",
                    !.m_bit_values = SyncWindow(stream, start, at, len, kind)])
       /\ env = [kind |-> "sync", phasing |-> n, start |-> start, damage_at |-> at,
                 damage_len |-> len,
                 damage |-> IF len = 0 THEN "zero" ELSE kind,
                 called |-> FALSE, offset |-> -1, before |-> << >>]
  /\ pc = "idle" /\ remaining = 0 /\ fft_left = 0 /\ pb = NoPb /\ ncalls = 0
  /\ peer = NoEnv /\ alone = NoEnv

\* offset = find_alpha_characters()
FindAlphaCharacters ==
  /\ env.kind = "sync" /\ ~env.called
  /\ \E offset \in {find_alpha_characters(m_bit_values)} :
       env' = [env EXCEPT !.called = TRUE, !.offset = offset, !.before = m_bit_values]
  /\ RxBecomes(Rx)
  /\ UNCHANGED << pc, remaining, fft_left, pb, ncalls, peer, alone >>

NextSync == FindAlphaCharacters

SpecSync == InitSync /\ [][NextSync]_vars

\* [score, reps] of each candidate offset, as the inner loop leaves them
SyncTally(bits) ==
  [o \in FecDistance..(FecDistance + 13) |-> fac_slots(bits, o, Len(bits) - 7, 0, 0)]

\* C26: find_alpha_characters returns -1 or an offset in 35..48; an offset o
\* only if o has reps >= 3 and score + reps > 8 and no offset with reps >= 3
\* has a higher score + reps, nor a lower one the same; -1 exactly when no
\* offset has both reps >= 3 and score + reps > 8; the buffer is unchanged.
C26_FindAlphaResult ==
  (env.kind = "sync" /\ env.called) =>
     \A t \in {SyncTally(env.before)} :
        LET total(o) == t[o].score + t[o].reps
            good     == {o \in DOMAIN t : t[o].reps >= 3}
        IN  /\ env.offset \in {-1} \cup (FecDistance..(FecDistance + 13))
            /\ env.offset /= -1 =>
                 /\ env.offset \in good /\ total(env.offset) > 8
                 /\ \A o \in good : /\ total(o) <= total(env.offset)
                                    /\ total(o) = total(env.offset) => o >= env.offset
            /\ env.offset = -1 <=> ~ \E o \in good : total(o) > 8
            /\ m_bit_values = env.before

\* the offset returned shares the highest score + reps with a later offset
C26_Witness ==
  /\ env.kind = "sync" /\ env.called /\ env.offset >= FecDistance
  /\ \E o \in (env.offset + 1)..(FecDistance + 13) :
       LET t == SyncTally(env.before) IN
         /\ t[o].reps >= 3
         /\ t[o].score + t[o].reps = t[env.offset].score + t[env.offset].reps


\* the slots of candidate offset o in a buffer of len bits
SyncSlots(o, len) == {i \in o..(len - 8) : (i - o) % 7 = 0}

\* the slot at i holds a valid code
SyncValid(bits, i) == check_bits(bytes_to_code(bits, i))

\* the slot at i holds the code it held 35 bits earlier
SyncMatch(bits, i) ==
  /\ SyncValid(bits, i)
  /\ bytes_to_code(bits, i) = bytes_to_code(bits, i - FecDistance)

\* a self-matching alpha or rep control code
SyncReset(bits, i) ==
  SyncMatch(bits, i) /\ bytes_to_code(bits, i) \in {code_alpha, code_rep}

\* an alpha control code that does not match and follows a rep control code
SyncPhasing(bits, i) ==
  /\ SyncValid(bits, i) /\ ~SyncMatch(bits, i)
  /\ bytes_to_code(bits, i) = code_alpha /\ bytes_to_code(bits, i - 7) = code_rep

\* the valid slots of offset o after its last self-matching control code
SyncScored(bits, o) ==
  {i \in SyncSlots(o, Len(bits)) :
     /\ SyncValid(bits, i)
     /\ \A j \in SyncSlots(o, Len(bits)) : SyncReset(bits, j) => j < i}

\* C27 as stated: for each offset, reps counts the valid slots whose code
\* equals the code 35 bits earlier and is neither control code, and no other
\* slot; score counts the valid slots, from 0 again after a self-matching
\* alpha or rep control code.
C27_RepsCountsMatchesOnly ==
  (env.kind = "sync" /\ env.called) =>
     \A t \in {SyncTally(env.before)} : \A o \in DOMAIN t :
        /\ t[o].score = Cardinality(SyncScored(env.before, o))
        /\ t[o].reps = Cardinality({i \in SyncSlots(o, Len(env.before)) :
                                      SyncMatch(env.before, i) /\ ~SyncReset(env.before, i)})

\* C27 as amended: reps counts those slots and also the valid slots that hold
\* the alpha control code, differ from the code 35 bits earlier and follow,
\* 7 bits earlier, the rep control code; no other slot increases reps.
C27_RepsCountsMatchesAndPhasing ==
  (env.kind = "sync" /\ env.called) =>
     \A t \in {SyncTally(env.before)} : \A o \in DOMAIN t :
        /\ t[o].score = Cardinality(SyncScored(env.before, o))
        /\ t[o].reps = Cardinality({i \in SyncSlots(o, Len(env.before)) :
                                      \/ SyncMatch(env.before, i) /\ ~SyncReset(env.before, i)
                                      \/ SyncPhasing(env.before, i)})

\* a buffer in which the phasing alphas after a rep make the reps of an offset
\* reach 3, which its matching characters alone do not
C27_Witness ==
  /\ env.kind = "sync" /\ env.called
  /\ \E o \in FecDistance..(FecDistance + 13) :
       LET slots    == SyncSlots(o, Len(env.before))
           matches  == {i \in slots : SyncMatch(env.before, i) /\ ~SyncReset(env.before, i)}
           phasings == {i \in slots : SyncPhasing(env.before, i)}
       IN  /\ phasings /= {}
           /\ Cardinality(matches) < 3 /\ Cardinality(matches \cup phasings) >= 3


(***************************************************************************)
(* Claims on the order of the FEC alternatives (under SpecCodec)           *)
(***************************************************************************)
\* the k-th alternative of process_bytes, packed: alpha, rep, alpha + rep,
\* flipped alpha, flipped rep, flipped alpha + rep
CombinerAlternative(bits, cursor, k) ==
  LET reppos == cursor - FecDistance
      sum    == [i \in 1..7 |-> bits[cursor + i] + bits[reppos + i]]
  IN  CASE k = 1 -> bytes_to_code(bits, cursor)
        [] k = 2 -> bytes_to_code(bits, reppos)
        [] k = 3 -> bytes_to_code(sum, 0)
        [] k = 4 -> bytes_to_code(flip_smallest_bit(bits, cursor), cursor)
        [] k = 5 -> bytes_to_code(flip_smallest_bit(bits, reppos), reppos)
        [] k = 6 -> bytes_to_code(flip_smallest_bit(sum, 0), 0)

CombinerReturns == << 1, 0, -1, -1, -1, -1 >>

\* the first valid alternative from the k-th on, 0 when there is none
RECURSIVE FirstValid(_, _, _)
FirstValid(bits, cursor, k) ==
  IF k > 6 THEN 0
  ELSE IF check_bits(CombinerAlternative(bits, cursor, k)) THEN k
  ELSE FirstValid(bits, cursor, k + 1)

\* C28: process_bytes returns the first check_bits-valid alternative in the
\* order alpha (+1), rep (0), alpha + rep (-1), flipped alpha (-1), flipped rep
\* (-1), flipped alpha + rep (-1), and -2 when none is valid; the accepted code
\* is the one handed to process_char.  A valid alpha is accepted with +1
\* whatever the rep slot holds.  When alpha is invalid and the rep slot holds
\* the rep control code, it returns 0 and process_char is not called: m_shift,
\* m_alpha_phase, last_char, m_curr_msg and the sink are as before.
C28_CombinerPriority ==
  [][(pc = "decode" /\ pc' = "decoded") =>
       \A k \in {FirstValid(m_bit_values, m_bit_cursor, 1)} :
         IF k = 0
         THEN pb'.ret = -2 /\ pb'.code = -1 /\ m_out' = m_out /\ m_curr_msg' = m_curr_msg
         ELSE \A code \in {CombinerAlternative(m_bit_values, m_bit_cursor, k)} :
                /\ pb'.ret = CombinerReturns[k]
                /\ IF k = 2 /\ code = code_rep
                   THEN /\ pb'.code = -1
                        /\ m_shift' = m_shift
                        /\ m_alpha_phase' = m_alpha_phase
                        /\ last_char' = last_char
                        /\ m_curr_msg' = m_curr_msg
                        /\ m_out' = m_out
                   ELSE pb'.code = code]_vars

\* an invalid alpha whose rep slot holds the rep control code was skipped
C28_Witness ==
  /\ pb.called /\ ~pb.alpha_valid /\ pb.rep = code_rep
  /\ pb.ret = 0 /\ pb.code = -1 /\ m_out = << >> /\ m_alpha_phase


(***************************************************************************)
(* Claims on flip_smallest_bit (under SpecCodec: process_bytes applies it  *)
(* in place to the alpha slot when alpha, rep and alpha + rep are invalid) *)
(***************************************************************************)
SoftSlot(bits, cursor) == [i \in 0..6 |-> bits[cursor + 1 + i]]

SoftOnes(v) == {i \in 0..6 : v[i] > 0}

ClosestToZero(v, S) == {i \in S : \A j \in S : v[i] * v[i] <= v[j] * v[j]}

SignFlipped(v, w, S) ==
  /\ \E i \in S : w = [v EXCEPT ![i] = -@]
  /\ Cardinality({i \in 0..6 : w[i] /= v[i]}) = 1
  /\ Cardinality(SoftOnes(w)) = 4

AlphaSlotFlipped ==
  /\ pc = "decode" /\ pc' = "decoded"
  /\ \A k \in 1..3 : ~check_bits(CombinerAlternative(m_bit_values, m_bit_cursor, k))

\* C29: flip_smallest_bit on 7 soft bits: when the packed code has 5 ones the
\* sign of the positive soft bit closest to zero is flipped, when it has 4
\* zeros the sign of the negative soft bit closest to zero is flipped, and
\* otherwise nothing changes; after a flip exactly one element has changed and
\* the 7 soft bits pack to a check_bits-valid code.
C29_FlipSmallestBit ==
  [][AlphaSlotFlipped =>
       \A v \in {SoftSlot(m_bit_values, m_bit_cursor)} :
         \A w \in {SoftSlot(m_bit_values', m_bit_cursor)} :
           IF Cardinality(SoftOnes(v)) = 5
           THEN SignFlipped(v, w, ClosestToZero(v, SoftOnes(v)))
           ELSE IF Cardinality(SoftOnes(v)) = 3
           THEN SignFlipped(v, w, ClosestToZero(v, {i \in 0..6 : v[i] < 0}))
           ELSE w = v]_vars


(***************************************************************************)
(* Claims on the double-rep phase repair (under SpecTwo: in each decoder's *)
(* own stream a single alpha slot arrives as the rep code, after a         *)
(* character; alone.a and alone.b are the same decoders with a last_char   *)
(* of their own, the previous code each has itself accepted)               *)
(***************************************************************************)
\* the alternation of a decoder: whether the next slot is an alpha slot, and
\* where it is
Alternation(d) == << d.m_state, d.m_alpha_phase, d.m_bit_cursor >>

\* C30: m_alpha_phase is forced to false, so that the slot after an accepted
\* rep is decoded as an alpha slot again, only when the previous code accepted
\* by this decoder was rep as well; a rep accepted after any other code leaves
\* the alternation unchanged.  Here no decoder accepts two rep codes in a
\* row, so each decoder keeps the alternation given by its own codes.
C30_RepairOnOwnDoubleRepOnly ==
  env.kind = "two" =>
     /\ Alternation(Rx) = Alternation(alone.a)
     /\ Alternation(peer) = Alternation(alone.b)


(***************************************************************************)
(* Claims on the shift state (under SpecFrame)                             *)
(***************************************************************************)
\* the code process_bytes hands to process_char when handle_bit_value reaches
\* its READ_DATA part in s, -1 when it hands none
FrameHandedCode(s) ==
  IF s.m_state = "READ_DATA" /\ s.m_bit_cursor < Len(s.m_bit_values) - 7 /\ s.m_alpha_phase
  THEN process_bytes(s, s.m_bit_cursor).code
  ELSE -1

AvgScale == 64

TimeScale == AvgScale * 1024

\* fmod(x, m): the remainder has the sign of x
fmod(x, m) == x - m * CDiv(x, m)

\* decayavg(average, input, weight) = average + (input - average) / weight
decayavg(average, input, weight) == average + ((input - average) \div weight)

\* the bit clock fields of the object after construction
bit_clock(sample_rate) ==
  LET bsc == (sample_rate * TimeScale) \div m_baud_rate IN
  [ m_bit_sample_count |-> bsc,
    m_early_accumulator |-> 0, m_prompt_accumulator |-> 0, m_late_accumulator |-> 0,
    m_next_early_event |-> 0,
    m_next_prompt_event |-> bsc \div 5,
    m_next_late_event |-> (bsc * 2) \div 5,
    m_average_early_signal |-> 0, m_average_prompt_signal |-> 0,
    m_average_late_signal |-> 0 ]

\* the three event times moved by slope
clock_adjusted(c, slope) ==
  IF slope /= 0
  THEN [c EXCEPT !.m_next_early_event = @ + slope,
                 !.m_next_prompt_event = @ + slope,
                 !.m_next_late_event = @ + slope]
  ELSE c

process_multicorrelator_prompt_only(c, sample_count, period) ==
  IF sample_count % period /= 0 THEN c
  ELSE [c EXCEPT !.m_next_prompt_event =
                    @ + (c.m_average_late_signal - c.m_average_early_signal)]

\* navtex_rx::process_multicorrelator; period is (int)(m_bit_sample_count * 8)
process_multicorrelator(c, sample_count, period) ==
  IF sample_count % period /= 0 THEN c
  ELSE IF /\ c.m_average_prompt_signal * 105 < c.m_average_early_signal * 100
          /\ c.m_average_prompt_signal * 105 < c.m_average_late_signal * 100
  THEN IF c.m_average_early_signal > c.m_average_late_signal
       THEN clock_adjusted(
              [c EXCEPT !.m_average_late_signal = c.m_average_prompt_signal,
                        !.m_average_prompt_signal = c.m_average_early_signal],
              fmod(c.m_next_early_event - c.m_next_prompt_event - c.m_bit_sample_count,
                   c.m_bit_sample_count))
       ELSE clock_adjusted(
              [c EXCEPT !.m_average_early_signal = c.m_average_prompt_signal,
                        !.m_average_prompt_signal = c.m_average_late_signal],
              fmod(c.m_next_late_event - c.m_next_prompt_event + c.m_bit_sample_count,
                   c.m_bit_sample_count))
  ELSE clock_adjusted(c, c.m_average_late_signal - c.m_average_early_signal)

\* the accumulators and the three events of one iteration of the loop of
\* process_fft_output: [c, pulse, prompt], pulse the value given to
\* m_pulse_edge_event and prompt the prompt accumulator at the event
clock_events(c, sample_count, mark_state) ==
  LET now == sample_count * TimeScale
      c1  == [c EXCEPT !.m_early_accumulator = @ + mark_state,
                       !.m_prompt_accumulator = @ + mark_state,
                       !.m_late_accumulator = @ + mark_state]
      c2  == IF now >= c1.m_next_early_event
             THEN [c1 EXCEPT !.m_average_early_signal =
                                decayavg(@, AvgScale * Abs(c1.m_early_accumulator), 64),
                             !.m_next_early_event = @ + c1.m_bit_sample_count,
                             !.m_early_accumulator = 0]
             ELSE c1
      c3  == IF now >= c2.m_next_late_event
             THEN [c2 EXCEPT !.m_average_late_signal =
                                decayavg(@, AvgScale * Abs(c2.m_late_accumulator), 64),
                             !.m_next_late_event = @ + c2.m_bit_sample_count,
                             !.m_late_accumulator = 0]
             ELSE c2
      pulse == now >= c3.m_next_prompt_event
      c4  == IF pulse
             THEN [c3 EXCEPT !.m_average_prompt_signal =
                                decayavg(@, AvgScale * Abs(c3.m_prompt_accumulator), 64),
                             !.m_next_prompt_event = @ + c3.m_bit_sample_count,
                             !.m_prompt_accumulator = 0]
             ELSE c3
  IN  [c |-> c4, pulse |-> pulse, prompt |-> c3.m_prompt_accumulator]

\* the sample rates of the decoders: 10 samples per bit
ClockRates == {1000}

\* the discriminator output: the bits of a pattern, each held for one bit
\* period, seen from a phase of so many samples
ClockPatterns == { << 1, -1 >>, << 1, 1, -1 >>, << 1, -1, -1, -1 >> }

ClockPhases == 0..9

ClockLevels == {1, 3}

MaxClockSamples == 330

\* mark_state of the sample n
ClockMark(e, n) ==
  e.level * e.pattern[(((n + e.phase) \div e.bit_len) % Len(e.pattern)) + 1]

InitBitClock ==
  /\ \E rate \in ClockRates :
       /\ RxIs(navtex_rx(rate, FALSE, FALSE))
       /\ \E pattern \in ClockPatterns, phase \in ClockPhases, level \in ClockLevels :
            env = [kind |-> "bitclock", pattern |-> pattern, phase |-> phase,
                   level |-> level, bit_len |-> rate \div m_baud_rate,
                   mark |-> 0, clock |-> bit_clock(rate)]
  /\ pc = "fft" /\ remaining = 0 /\ fft_left = 0 /\ pb = NoPb /\ ncalls = 0
  /\ peer = NoEnv /\ alone = NoEnv

\* one iteration of the loop of process_fft_output
ClockSample ==
  /\ env.kind = "bitclock" /\ m_sample_count < MaxClockSamples
  /\ \E mark_state \in {ClockMark(env, m_sample_count)} :
     \E c0 \in {process_multicorrelator(env.clock, m_sample_count, multicorrelator_period(Rx))} :
     \E r \in {clock_events(c0, m_sample_count, mark_state)} :
     \E after \in {process_fft_output_sample(Rx, r.pulse, r.prompt)} :
       /\ RxBecomes(after)
       /\ env' = [env EXCEPT !.clock = r.c, !.mark = mark_state]
  /\ UNCHANGED << pc, remaining, fft_left, pb, ncalls, peer, alone >>

NextBitClock == ClockSample

SpecBitClock == InitBitClock /\ [][NextBitClock]_vars

\* next_prompt_event - next_early_event and next_late_event -
\* next_prompt_event are bit_samples / 5 plus a multiple of bit_samples
ClockSpacing(c) ==
  /\ (c.m_next_prompt_event - c.m_next_early_event - c.m_bit_sample_count \div 5)
        % c.m_bit_sample_count = 0
  /\ (c.m_next_late_event - c.m_next_prompt_event - c.m_bit_sample_count \div 5)
        % c.m_bit_sample_count = 0

\* the event at time next with accumulator acc, after an adjustment by slope:
\* reached, it advances by bit_samples and zeroes the accumulator; not
\* reached, it keeps its time and the accumulator takes the sample
ClockEventStep(now, slope, bsc, mark, next, acc, next_after, acc_after) ==
  IF now >= next + slope
  THEN next_after = next + slope + bsc /\ acc_after = 0
  ELSE next_after = next + slope /\ acc_after = acc + mark

LongHeader == << 90, 67, 90, 67, 32, 65, 66, 49, 50, 13 >>      \* "ZCZC AB12\r"

LongLetter == << 88 >>                                          \* "X"

LongTokens == { LongHeader, LongLetter, stop_valid }

LongCallSec == 301

MaxLongTokens == 8

InitLongMessage ==
  /\ RxIs(navtex_rx(SampleRate11k, FALSE, FALSE))
  /\ env = [kind |-> "asm", ntokens |-> 1, codes |-> chars_to_codes(<< >>, LongHeader, FALSE),
            code |-> -1, silences |-> 0, glyph_time |-> 0, timeouts |-> 0,
            timeout_time |-> 0, glyph_age |-> 0]
  /\ pc = "idle" /\ remaining = 0 /\ fft_left = 0 /\ pb = NoPb /\ ncalls = 0
  /\ peer = NoEnv /\ alone = NoEnv

\* process_data(data, nb_samples) on samples from which the code Head(cs) is
\* decoded, cs the codes that follow those of the piece being sent
LongCall(cs, nb_samples, started) ==
  /\ \E after \in process_data(Rx, nb_samples, << Head(cs) >>) :
       /\ RxBecomes(after)
       /\ env' = [env EXCEPT
            !.codes = Tail(cs), !.code = Head(cs),
            !.ntokens = @ + started,
            !.glyph_time = IF Head(cs) \in ControlCodes THEN @
                           ELSE (after.m_sample_count - FiltBlock) \div m_sample_rate,
            !.timeouts = IF TimeoutDue THEN @ + 1 ELSE @,
            !.timeout_time = IF TimeoutDue THEN m_time_sec ELSE @,
            !.glyph_age = IF TimeoutDue THEN m_time_sec - env.glyph_time ELSE @]
  /\ ncalls' = ncalls + 1
  /\ UNCHANGED << pc, remaining, fft_left, pb, peer, alone >>

\* a call of BUFSIZE samples with the next code of the piece being sent or
\* the first code of a next piece
LongProcessData ==
  /\ pc = "idle" /\ env.kind = "asm"
  /\ IF env.codes /= << >> THEN LongCall(env.codes, BUFSIZE, 0)
     ELSE /\ env.ntokens < MaxLongTokens
          /\ \E tok \in LongTokens : LongCall(chars_to_codes(<< >>, tok, m_shift), BUFSIZE, 1)

\* a call of LongCallSec seconds of samples with one letter
LongProcessDataFading ==
  /\ pc = "idle" /\ env.kind = "asm"
  /\ env.codes = << >> /\ env.ntokens < MaxLongTokens /\ ~m_shift
  /\ LongCall(chars_to_codes(<< >>, LongLetter, FALSE), LongCallSec * SampleRate11k, 1)

NextLongMessage == LongProcessData \/ LongProcessDataFading

SpecLongMessage == InitLongMessage /\ [][NextLongMessage]_vars

\* the text the envelope detection of this step looks at: the accumulator, or
\* nothing after the timeout flush of the step, and the glyph of the step
LongText == Append(IF TimeoutDue THEN << >> ELSE m_curr_msg.str, AsmGlyph)

\* str ends with ':<TIMEOUT>'
EndsWithTimeout(str) ==
  /\ Len(str) >= Len(str_timeout)
  /\ SubSeq(str, Len(str) - Len(str_timeout) + 1, Len(str)) = str_timeout

\* C33: with only_sitor_b false the last-activity time is set to the current
\* time by a header detection, by a trailer flush and by a timeout flush, and
\* is changed by nothing else, a glyph included; a call that starts more than
\* 600 s after the last of these makes a '<TIMEOUT>' flush, even with a header
\* open and whenever the last glyph was decoded, and no other call makes one;
\* a timeout flush comes more than 600 s after the previous timeout flush.
C33_TimeoutSinceBoundary ==
  [][(env.kind = "asm" /\ ~m_only_sitor_b) =>
        /\ m_message_time' =
             IF AsmGlyph >= 0 /\ (EndsWithHeader(LongText) \/ EndsWithTrailer(LongText))
             THEN AsmDecodeTime
             ELSE IF m_time_sec - m_message_time > TimeoutSec THEN m_time_sec
             ELSE m_message_time
        /\ IF m_time_sec - m_message_time > TimeoutSec
           THEN /\ NewFlushes /= << >>
                /\ NewFlushes[1] = (IF m_header_found THEN << >> ELSE str_lost_header)
                                      \o m_curr_msg.str \o str_timeout
                /\ \A timeouts \in {env.timeouts} :
                      timeouts > 0 => m_time_sec - env.timeout_time > TimeoutSec
           ELSE \A k \in 1..Len(NewFlushes) : ~EndsWithTimeout(NewFlushes[k])]_vars

\* a message with its header open has been cut by a second timeout flush
\* although a glyph of it was decoded less than 600 s before the flush
C33_Witness ==
  /\ env.kind = "asm" /\ env.timeouts = 2 /\ env.glyph_age < TimeoutSec
  /\ FlushWrites(m_out) /= << >>
  /\ \E k \in 1..Len(FlushWrites(m_out)) :
        /\ EndsWithTimeout(FlushWrites(m_out)[k].bytes)
        /\ FlushWrites(m_out)[k].bytes = << 88, 88, 88 >> \o str_timeout


(***************************************************************************)
(* Claim on the flushes of empty texts (under SpecAssembler)                *)
(***************************************************************************)
\* the flush that the timeout due at the start of this step makes
TimeoutFlushes ==
  IF TimeoutDue
  THEN << (IF m_header_found THEN << >> ELSE str_lost_header) \o m_curr_msg.str \o str_timeout >>
  ELSE << >>

\* the flush that the glyph of this step makes: of the cleaned-up text in
\* front of a header it completes, unless no header is open and that text is
\* empty, or of the text in front of a trailer it completes
EnvelopeFlushes ==
  LET open == m_header_found /\ ~TimeoutDue
      n    == Len(LongText)
  IN  IF AsmGlyph < 0 THEN << >>
      ELSE IF EndsWithHeader(LongText)
      THEN LET front == Cleaned(SubSeq(LongText, 1, n - 10)) IN
           IF open THEN << front \o str_lost_trailer >>
           ELSE IF front /= << >> THEN << str_lost_header \o front \o str_lost_trailer >>
           ELSE << >>
      ELSE IF EndsWithTrailer(LongText)
      THEN << (IF open THEN << >> ELSE str_lost_header) \o SubSeq(LongText, 1, n - 4) >>
      ELSE << >>

\* C34: every flush is written to the sink whatever the length of the text:
\* the timeout flush of a call that starts with the timeout due, the flush of
\* the text in front of a completed header (made when a header is open or that
\* text is not empty) and the flush of a completed trailer each make one write,
\* also of an empty text, and nothing else is written as a message.
C34_EveryFlushIsWritten ==
  [][env.kind = "asm" =>
        \A expected \in {TimeoutFlushes \o EnvelopeFlushes} : NewFlushes = expected]_vars

\* three flushes of an empty text have been written: at a header that follows
\* a header, at the trailer that follows it, and at the timeout after that
C34_Witness ==
  /\ env.kind = "asm" /\ Len(FlushWrites(m_out)) = 3
  /\ FlushWrites(m_out)[1].bytes = str_lost_trailer
  /\ FlushWrites(m_out)[2].bytes = << >>
  /\ FlushWrites(m_out)[3].bytes = str_lost_header \o str_timeout


(***************************************************************************)
(* SpecAccepted: one process_bytes call in either shift, on an alpha slot   *)
(* and a rep slot that pack to any two 7-bit values                         *)
(***************************************************************************)
InitAccepted ==
  /\ \E a \in 0..127, r \in 0..127, pa \in 0..MaxProfile, shift \in BOOLEAN :
       RxIs([navtex_rx(SampleRate11k, FALSE, FALSE) EXCEPT
               !.m_state = "READ_DATA", !.m_alpha_phase = TRUE, !.m_shift = shift,
               !.m_bit_cursor = FecDistance,
               !.m_bit_values = SlotBits(FecDistance, a, pa, r, 0)])
  /\ pc = "decode" /\ remaining = 0 /\ fft_left = 0
  /\ pb = NoPb /\ ncalls = 0 /\ env = NoEnv
  /\ peer = NoEnv /\ alone = NoEnv

SpecAccepted == InitAccepted /\ [][NextCodec]_vars

\* v has a glyph in the LTRS table and in the FIGS table
GlyphInBothTables(v) ==
  code_to_ltrs[v + 1] /= UnderscoreChar /\ code_to_figs[v + 1] /= UnderscoreChar

\* C35: every 7-bit value with four bits set is one of the six control codes
\* or has a glyph in both tables (here the values are those the two slots
\* pack to); the code that process_bytes hands to process_char has four bits
\* set, and process_char leaves in last_char the code itself for a control
\* code and otherwise the glyph of the table of the shift in force, never the
\* negated code of the 'Missed this code' branch.
C35_AcceptedCodeHasGlyph ==
  pb.called =>
    /\ \A v \in {pb.alpha, pb.rep} :
         PopCount(v) = 4 => v \in ControlCodes \/ GlyphInBothTables(v)
    /\ pb.code >= 0 =>
         /\ PopCount(pb.code) = 4
         /\ last_char >= 0
         /\ last_char = IF pb.code \in ControlCodes THEN pb.code
                        ELSE IF m_shift THEN code_to_figs[pb.code + 1]
                        ELSE code_to_ltrs[pb.code + 1]

\* in the figure shift the code 0x4b, recovered from two invalid slots, has
\* been decoded as BELL
C35_Witness ==
  /\ pb.called /\ pb.ret = -1 /\ pb.code = 75 /\ m_shift /\ last_char = char_bell
  /\ env = NoEnv /\ m_bit_cursor = FecDistance


(***************************************************************************)
(* SpecSlots: the decoder one filtered sample at a time, as in SpecFrame,   *)
(* on a transmission in which some slots are received as the rep control    *)
(* code and which may fade to nothing for a while.  env counts the bits     *)
(* that handle_bit_value has shifted in and remembers the slot it read      *)
(* last: where the slot starts in the stream of those bits, whether it was  *)
(* read at the last place of the buffer where a slot is read, whether its   *)
(* decoding was attempted, the code handed to process_char, the value       *)
(* last_char had then and whether the slot before it was a double-REP       *)
(* repair.                                                                  *)
(***************************************************************************)
SlotsInjected == { {}, {35}, {35, 37}, {41, 43} }

SlotsFadeLens == {0, 112}

SlotsFadeAt == 400

\* the prompt accumulators of the transmission with the slots injs (numbered
\* from 0) received as 0x66
SlotsBits(injs) ==
  tx_bits([n \in 1..Len(tx_slots(FrameCodes)) |->
             IF n - 1 \in injs THEN code_rep ELSE tx_slots(FrameCodes)[n]])

\* the accumulator of the next bit of the stream
SlotsBit(e) ==
  IF e.pos \in SlotsFadeAt..(SlotsFadeAt + e.fade_len - 1) THEN 0
  ELSE SlotsBits(e.injs)[e.pos + 1]

NoSlot == [cursor |-> -1, attempted |-> FALSE, code |-> -1]

\* the slot that handle_bit_value(accumulator) reads, if any: its place in
\* the buffer, whether process_bytes is called on it and the code that call
\* hands to process_char
slot_read(s, accumulator) ==
  LET s1 == [s EXCEPT !.m_bit_values = Append(Tail(@), accumulator),
                      !.m_bit_cursor = IF @ > 0 THEN @ - 1 ELSE @]
  IN  The({ IF s2.m_state = "READ_DATA" /\ s2.m_bit_cursor < Len(s2.m_bit_values) - 7
            THEN [cursor |-> s2.m_bit_cursor, attempted |-> s2.m_alpha_phase,
                  code |-> IF s2.m_alpha_phase THEN process_bytes(s2, s2.m_bit_cursor).code
                           ELSE -1]
            ELSE NoSlot : s2 \in {hbv_sync(s1)} })

\* the last slot read was a rep control code handed to process_char right
\* after another: the double-REP repair
SlotsRepaired(e) == e.attempted /\ e.code = code_rep /\ e.last_char = code_rep

InitSlots ==
  /\ RxIs(navtex_rx(m_baud_rate * BitPeriod, FALSE, FALSE))
  /\ \E injs \in SlotsInjected, len \in SlotsFadeLens :
       env = [kind |-> "slots", injs |-> injs, fade_len |-> len, pos |-> 0,
              bits |-> 0, nread |-> 0, start |-> -1, last |-> -1, gap |-> 0,
              attempted |-> FALSE, code |-> -1, last_char |-> 0, steady |-> FALSE,
              after_repair |-> FALSE]
  /\ pc = "fft" /\ remaining = 0 /\ fft_left = 0 /\ pb = NoPb /\ ncalls = 0
  /\ peer = NoEnv /\ alone = NoEnv

\* one iteration of the loop of process_fft_output on the next filtered sample
SlotsSample ==
  /\ env.kind = "slots" /\ env.pos < Len(SlotsBits(env.injs))
  /\ \E pulse \in {PulseAt(m_sample_count)} :
     \E bit \in {SlotsBit(env)} :
     \E called \in {pulse /\ m_state /= "SYNC_SETUP"} :
     \E read \in {IF called THEN slot_read(Rx, bit) ELSE NoSlot} :
     \E after \in {process_fft_output_sample(Rx, pulse, bit)} :
     \E bits \in {env.bits + (IF called THEN 1 ELSE 0)} :
       /\ RxBecomes(after)
       /\ env' = IF read.cursor >= 0
                 THEN [env EXCEPT
                         !.pos = @ + 1, !.bits = bits, !.nread = @ + 1,
                         !.start = bits - Len(m_bit_values) + read.cursor,
                         !.last = IF after.m_state = "READ_DATA"
                                  THEN bits - Len(m_bit_values) + read.cursor ELSE -1,
                         !.gap = 0, !.attempted = read.attempted, !.code = read.code,
                         !.last_char = last_char,
                         !.after_repair = SlotsRepaired(env),
                         !.steady = read.cursor = Len(m_bit_values) - 8]
                 ELSE [env EXCEPT
                         !.pos = IF pulse THEN @ + 1 ELSE @, !.bits = bits,
                         !.gap = IF called THEN @ + 1 ELSE @,
                         !.last = IF after.m_state = "READ_DATA" THEN @ ELSE -1]
  /\ UNCHANGED << pc, remaining, fft_left, pb, ncalls, peer, alone >>

NextSlots == SlotsSample

SpecSlots == InitSlots /\ [][NextSlots]_vars

\* C36: between two resyncs each slot read in READ_DATA starts exactly 7
\* stream bits after the slot read before it, so that every stream bit is in
\* one slot and one only; decoding is attempted on a slot exactly when it was
\* not attempted on the slot before, except that it is attempted again on the
\* slot after a double-REP repair; once a slot has been read at the last
\* place of the buffer where one is read (the cursor has caught up with the
\* stream), every slot is, on every 7th pulse-edge event; before that fewer
\* than 7 events go by from slot to slot.
C36_SlotsTileTheStream ==
  [][(env.kind = "slots" /\ env.last >= 0) =>
        IF env'.nread > env.nread
        THEN /\ env'.start = env.last + 7
             /\ env'.attempted = (~env.attempted \/ SlotsRepaired(env))
             /\ IF env.steady THEN env.gap = 6 /\ env'.steady ELSE env.gap < 6
        ELSE env'.bits > env.bits => env.gap < 6]_vars

\* after a double-REP repair the decoding of the next slot has been
\* attempted as well, 7 bits on, in the steady state
C36_Witness ==
  /\ env.kind = "slots" /\ env.nread > 20 /\ env.steady
  /\ env.after_repair /\ env.attempted /\ env.last >= 0 /\ env.gap = 3
  /\ m_state = "READ_DATA" /\ ~m_alpha_phase

=============================================================================
